---- MODULE Spec2Model ----
(***************************************************************************)
(* Multi-path retrieval pipeline of the RAG service: recall strategies,    *)
(* Reciprocal Rank Fusion, MMR diversity reordering, the ranking engine    *)
(* (blacklist -> MMR -> position insertion) and the SearchGateway that     *)
(* orchestrates them.                                                      *)
(*                                                                         *)
(* Numbers.  The code computes scores in IEEE doubles; the model computes  *)
(* them exactly.  Every score is an integer count of 1/RrfScale(k) units   *)
(* (RrfScale(k) is a common multiple of every denominator k + rank that    *)
(* can occur), so that sums and comparisons of 1/(k + rank) are exact.     *)
(* Similarities are counted in tenths and lambda in halves.                *)
(***************************************************************************)
EXTENDS Integers, Sequences, FiniteSets, TLC

VARIABLES
    \* ---- RRFMergeImpl.rrf_merge called on its own ----
    rrf_pc,          \* "call" | "returned"
    rrf_lists,       \* gw_candidate_lists argument
    rrf_top_n,       \* top_n argument
    rrf_k,           \* k argument
    rrf_out,         \* returned list
    \* ---- mmr_rerank called on its own ----
    mmr_pc,          \* "call" | "returned"
    mmr_items,       \* items argument
    mmr_lambda,      \* lambda_param argument, in halves
    mmr_top_n,       \* top_n argument
    mmr_out,         \* returned list
    \* ---- the external stores the ranking engine reads ----
    redis_blacklist, \* redis set "blacklist"
    redis_rules,     \* redis keys "position_rules:<key>": key -> value, <<>> if unset
    db_lambda,       \* diversity_config row 1: <<lambda in halves>>, <<>> if no row
    \* ---- RankingEngine ----
    lambda_cache,    \* self._lambda_param: <<>> for None | <<lambda in halves>>
    eng_pc,          \* "idle" | "call" | "mmr" | "position" | "returned"
    eng_query,       \* apply's query argument
    eng_arg,         \* apply's items argument
    eng_top_n,       \* apply's top_n argument
    eng_items,       \* apply's local items
    eng_blacklist,   \* what get_blacklist gave: [status, ids]
    eng_lambda,      \* what get_lambda_param gave: [param, read]
    eng_rule,        \* what get_position_rule gave: [status, doc_id, position]
    eng_calls,       \* how many apply calls this engine instance has taken
    \* ---- RerankService.predict from its step 6 on ----
    rr_pc,           \* "idle" | "validate" | "returned" | "raised"
    rr_candidates,   \* predict's candidates argument
    rr_sorted,       \* predict's local sorted_items
    rr_out,          \* returned list
    rr_outcome,      \* what the rerank model answered, when predict asked it
    \* ---- hot search: merge_and_rank called on its own ----
    hm_pc,           \* "idle" | "call" | "returned"
    hm_raw,          \* raw_items argument: pairs <<keyword, score>>
    hm_blocked,      \* blocked_words argument
    hm_pinned,       \* pinned_positions argument: set of pairs <<rank, word>>
    hm_limit,        \* limit argument
    hm_out,          \* returned list
    \* ---- hot search: the redis keys of the decay and the counters ----
    hot_list,        \* sorted set hot_search_list: keyword -> <<score>>, <<>> if absent
    tmp_decay,       \* sorted set hot_search_list:tmp_decay, same shape
    decay_lock,      \* key hot_search:decay_lock: TRUE while it exists
    boost_decay_factors, \* hash boost_decay_factors: keyword -> <<factor>>, <<>> if unset
    hot_list0,       \* hot_search_list as it was before any invocation
    lock_expiries,   \* how often the lock's TTL has run out
    \* ---- hot search: the invocations ----
    dec,             \* decay_once invocations: [pc, acquired, ret, factors, scores]
    rec,             \* the record_search_action invocation: [pc, keyword]
    \* ---- callers of the position rule store ----
    rule_set,        \* query string -> <<doc_id, position>> last set under it, <<>> if none or deleted
    rule_got,        \* the last get_position_rule since the store changed: [query, rule]
    \* ---- SearchGateway.search ----
    gw_pc,           \* where the search coroutine is
    gw_req,          \* search's arguments
    gw_cfg,          \* which optional services the gateway was built with
    ctx_tasks,       \* the embed and the tokenize task of _create_search_context
    gw_context,      \* the SearchContext, once built
    recall_tasks,    \* the recall tasks of _parallel_recall, by strategy position
    fin_order,       \* positions of the recall tasks in the order they finished
    gw_candidate_lists, \* what _parallel_recall returned
    gw_merged_candidates, \* what rrf_merge returned
    gw_final_results,   \* search's local gw_final_results
    gw_result,       \* the SearchResult, once built
    gw_log           \* the stages entered so far, in order

rrf_vars == <<rrf_pc, rrf_lists, rrf_top_n, rrf_k, rrf_out>>
mmr_vars == <<mmr_pc, mmr_items, mmr_lambda, mmr_top_n, mmr_out>>

store_vars == <<redis_blacklist, redis_rules, db_lambda, rule_set, rule_got>>
eng_vars == <<lambda_cache, eng_pc, eng_query, eng_arg, eng_top_n, eng_items,
              eng_blacklist, eng_lambda, eng_rule, eng_calls>>
rr_vars == <<rr_pc, rr_candidates, rr_sorted, rr_out, rr_outcome>>
hm_vars == <<hm_pc, hm_raw, hm_blocked, hm_pinned, hm_limit, hm_out>>
hd_vars == <<hot_list, tmp_decay, decay_lock, boost_decay_factors, hot_list0,
             lock_expiries, dec, rec>>

gw_vars == <<gw_pc, gw_req, gw_cfg, ctx_tasks, gw_context, recall_tasks, fin_order,
             gw_candidate_lists, gw_merged_candidates, gw_final_results, gw_result, gw_log>>

vars == <<rrf_vars, mmr_vars, store_vars, eng_vars, rr_vars, gw_vars, hm_vars, hd_vars>>

-----------------------------------------------------------------------------
(* Bounds of the model *)

\* most candidates, all lists together, handed to one rrf_merge call
MaxCandidates == 5
\* most candidate lists handed to one rrf_merge call
MaxLists == 2
\* most items handed to one mmr_rerank call
MaxItems == 3
\* most apply calls one RankingEngine instance takes
MaxCalls == 2
\* most raw items handed to one merge_and_rank call
MaxRaw == 3
\* decay_once invocations issued
MaxDecays == 2
\* how often the decay lock's TTL may run out
MaxExpiries == 1

(* Program constants *)

\* default of rrf_merge's parameter k
DefaultK == 60
\* mmr_rerank starts every scan with best_score = -999999
BestScoreFloor == 999999

\* get_lambda_param falls back to 0.5 (one half) when there is no row or the
\* read fails
DefaultLambda == 1

None == "None"

\* document ids, in the order used to pick one representative of every
\* renaming of the ids
DocOrder == <<"a", "b", "c", "d">>
Docs == {DocOrder[i] : i \in DOMAIN DocOrder}
DocIdx(d) == CHOOSE i \in DOMAIN DocOrder : DocOrder[i] = d

Min(x, y) == IF x <= y THEN x ELSE y
Max(x, y) == IF x >= y THEN x ELSE y

RECURSIVE Gcd(_, _)
Gcd(x, y) == IF y = 0 THEN x ELSE Gcd(y, x % y)

RECURSIVE LcmRange(_, _)
LcmRange(lo, hi) ==
    IF lo > hi THEN 1
    ELSE LET rest == LcmRange(lo + 1, hi)
         IN  (rest \div Gcd(rest, lo)) * lo

\* the unit of the scores rrf_merge(.., k) produces: one is RrfScale(k) units
RrfScale(k) == LcmRange(k, k + MaxCandidates - 1)

\* python: seq[:n]
Take(seq, n) == SubSeq(seq, 1, Min(Max(n, 0), Len(seq)))

-----------------------------------------------------------------------------
(* Data model: CandidateItem and ScoredItem.  One record shape serves both; *)
(* kind tells which attributes the python object has.                      *)

CandidateItem(doc_id, score, source, category, msource) ==
    [kind |-> "CandidateItem", doc_id |-> doc_id, score |-> score,
     source |-> source, final_score |-> 0, original_score |-> 0,
     category |-> category, msource |-> msource]

ScoredItem(doc_id, final_score, original_score, category, msource) ==
    [kind |-> "ScoredItem", doc_id |-> doc_id, score |-> 0,
     source |-> None, final_score |-> final_score,
     original_score |-> original_score,
     category |-> category, msource |-> msource]

DocIds(items) == [i \in DOMAIN items |-> items[i].doc_id]

-----------------------------------------------------------------------------
(* RRFMergeImpl.rrf_merge *)

\* rrf_increment = 1.0 / (k + rank), rank counted from 1 (a slip)
rrf_increment_from_one(k, rank) == RrfScale(k) \div (k + rank + 1)

\* rrf_increment = 1.0 / (k + rank), rank 0-based
rrf_increment(k, rank) == RrfScale(k) \div (k + rank)

\* doc_scores is a dict, which iterates in insertion order: a sequence of
\* entries [doc_id, rrf_score, candidate]
DocScoreIndex(doc_scores, doc_id) ==
    IF \E i \in DOMAIN doc_scores : doc_scores[i].doc_id = doc_id
    THEN CHOOSE i \in DOMAIN doc_scores : doc_scores[i].doc_id = doc_id
    ELSE 0

\* one pass of the inner loop body
AddOccurrence(doc_scores, candidate, inc) ==
    LET i == DocScoreIndex(doc_scores, candidate.doc_id)
    IN  IF i = 0
        THEN Append(doc_scores, [doc_id |-> candidate.doc_id, rrf_score |-> inc,
                                 candidate |-> candidate])
        ELSE [doc_scores EXCEPT ![i].rrf_score = @ + inc]

RECURSIVE AccumulateList(_, _, _, _)
AccumulateList(doc_scores, candidate_list, rank, k) ==
    IF rank >= Len(candidate_list) THEN doc_scores
    ELSE AccumulateList(
             AddOccurrence(doc_scores, candidate_list[rank + 1], rrf_increment(k, rank)),
             candidate_list, rank + 1, k)

RECURSIVE AccumulateLists(_, _, _, _)
AccumulateLists(doc_scores, candidate_lists, list_idx, k) ==
    IF list_idx > Len(candidate_lists) THEN doc_scores
    ELSE AccumulateLists(AccumulateList(doc_scores, candidate_lists[list_idx], 0, k),
                         candidate_lists, list_idx + 1, k)

\* the merged candidates without "candidate.score = data['rrf_score']": each
\* keeps the raw score of its source
MergedCandidatesRawScore(doc_scores) ==
    [i \in DOMAIN doc_scores |-> doc_scores[i].candidate]

\* candidate.score = data["rrf_score"], in dict order
MergedCandidates(doc_scores) ==
    [i \in DOMAIN doc_scores |->
        [doc_scores[i].candidate EXCEPT !.score = doc_scores[i].rrf_score]]

\* the sort key of sort(key=lambda x: x.score) / (key=lambda x: x.final_score)
KeyOf(item, key) == IF key = "score" THEN item.score ELSE item.final_score

\* the insertion of a sort without reverse=True: ascending keys
RECURSIVE InsertAscending(_, _, _)
InsertAscending(sorted, x, key) ==
    IF sorted = <<>> THEN <<x>>
    ELSE IF KeyOf(Head(sorted), key) <= KeyOf(x, key)
         THEN <<Head(sorted)>> \o InsertAscending(Tail(sorted), x, key)
         ELSE <<x>> \o sorted

\* the same insertion, but not stable: x goes in front of its equals
RECURSIVE InsertDescUnstable(_, _, _)
InsertDescUnstable(sorted, x, key) ==
    IF sorted = <<>> THEN <<x>>
    ELSE IF KeyOf(Head(sorted), key) > KeyOf(x, key)
         THEN <<Head(sorted)>> \o InsertDescUnstable(Tail(sorted), x, key)
         ELSE <<x>> \o sorted

\* list.sort(key, reverse=True) and sorted(.., reverse=True) are stable:
\* equal keys keep their order.  Insert x behind every element whose key
\* is >= x's key.
RECURSIVE InsertDesc(_, _, _)
InsertDesc(sorted, x, key) ==
    IF sorted = <<>> THEN <<x>>
    ELSE IF KeyOf(Head(sorted), key) >= KeyOf(x, key)
         THEN <<Head(sorted)>> \o InsertDesc(Tail(sorted), x, key)
         ELSE <<x>> \o sorted

RECURSIVE SortDescFrom(_, _, _, _)
SortDescFrom(sorted, seq, i, key) ==
    IF i > Len(seq) THEN sorted
    ELSE SortDescFrom(InsertDesc(sorted, seq[i], key), seq, i + 1, key)

SortDesc(seq, key) == SortDescFrom(<<>>, seq, 1, key)

rrf_merge(candidate_lists, top_n, k) ==
    LET doc_scores == AccumulateLists(<<>>, candidate_lists, 1, k)
        merged_candidates == SortDesc(MergedCandidates(doc_scores), "score")
    IN  Take(merged_candidates, top_n)

-----------------------------------------------------------------------------
(* rrf_merge on its own: every input within the bounds *)

\* values of k tried: the smallest, where many sums tie, and the default
Ks == {1, DefaultK}
TopNs == 0 .. Cardinality(Docs)

\* one representative of every renaming of the doc ids: a new id is always
\* the next unused one of DocOrder
CanonicalIds(flat) ==
    \A i \in DOMAIN flat :
        \/ \E j \in 1 .. (i - 1) : flat[j] = flat[i]
        \/ DocIdx(flat[i]) = 1 + Cardinality({flat[j] : j \in 1 .. (i - 1)})

RECURSIVE SumLens(_, _)
SumLens(lens, n) == IF n = 0 THEN 0 ELSE lens[n] + SumLens(lens, n - 1)

SourceTags == <<"vector", "keyword", "other">>
SourceTag(list_idx) == SourceTags[Min(list_idx, Len(SourceTags))]

\* the candidate a strategy emits for doc at 0-based rank: its raw score
\* falls with the rank
RawCandidate(doc, list_idx, rank) ==
    CandidateItem(doc, MaxCandidates + 1 - rank, SourceTag(list_idx), None, None)

\* cut the flat id sequence into lists of the given lengths
CutLists(flat, lens) ==
    [li \in DOMAIN lens |->
        [r \in 1 .. lens[li] |->
            RawCandidate(flat[SumLens(lens, li - 1) + r], li, r - 1)]]

RrfIdle ==
    /\ rrf_pc = "idle"
    /\ rrf_lists = <<>>
    /\ rrf_top_n = 0
    /\ rrf_k = DefaultK
    /\ rrf_out = <<>>

RrfInit ==
    /\ rrf_pc = "call"
    /\ \E n \in 0 .. MaxCandidates :
         \E flat \in [1 .. n -> Docs] :
           /\ CanonicalIds(flat)
           /\ \E nl \in 0 .. MaxLists :
                \E lens \in [1 .. nl -> 0 .. n] :
                  /\ SumLens(lens, nl) = n
                  /\ rrf_lists = CutLists(flat, lens)
    /\ rrf_top_n \in TopNs
    /\ rrf_k \in Ks
    /\ rrf_out = <<>>

RrfMergeCall ==
    /\ rrf_pc = "call"
    /\ rrf_out' = rrf_merge(rrf_lists, rrf_top_n, rrf_k)
    /\ rrf_pc' = "returned"
    /\ UNCHANGED <<rrf_lists, rrf_top_n, rrf_k>>
    /\ UNCHANGED <<mmr_vars, store_vars, eng_vars, gw_vars, rr_vars, hm_vars, hd_vars>>

RrfNext == RrfMergeCall

\* rrf_merge handed candidates some of which carry doc_id = None: the
\* dataclass CandidateItem accepts any value for doc_id
MaybeIds == {DocOrder[1], DocOrder[2], None}

RrfMaybeIdInit ==
    /\ rrf_pc = "call"
    /\ \E n \in 1 .. MaxCandidates :
         \E flat \in [1 .. n -> MaybeIds] :
           \E nl \in 1 .. MaxLists :
             \E lens \in [1 .. nl -> 0 .. n] :
               /\ SumLens(lens, nl) = n
               /\ rrf_lists = CutLists(flat, lens)
    /\ rrf_top_n \in TopNs
    /\ rrf_k \in Ks
    /\ rrf_out = <<>>

-----------------------------------------------------------------------------
(* mmr.py: calculate_similarity and mmr_rerank *)

\* the unit of every score that reaches the ranking stages: the unit of
\* rrf_merge's scores with the default k
ScoreUnit == RrfScale(DefaultK)

\* lambda values, in halves: 0, 0.5, 1 and the out-of-range 1.5
Lambdas == {0, 1, 2, 3}

\* metadata is getattr(item, "metadata", {}) or {}, and a missing key reads
\* as None: two items without a category have the same category.  In tenths.
calculate_similarity(item1, item2) ==
    Min((IF item1.category = item2.category THEN 6 ELSE 0)
        + (IF item1.msource = item2.msource THEN 4 ELSE 0), 10)

\* relevance = getattr(item, "final_score", 0.0): a CandidateItem has no
\* attribute final_score
Relevance(item) ==
    IF item.kind = "CandidateItem" THEN 0 ELSE item.final_score

RECURSIVE MaxSimilarity(_, _, _)
MaxSimilarity(item, selected, i) ==
    IF i > Len(selected) THEN 0
    ELSE Max(calculate_similarity(item, selected[i]),
             MaxSimilarity(item, selected, i + 1))

\* lambda outside [0, 1] is replaced by 0.5
EffectiveLambda(lambda_param) ==
    IF lambda_param < 0 \/ lambda_param > 2 THEN 1 ELSE lambda_param

\* mmr_score = lambda * relevance - (1 - lambda) * max_similarity, counted in
\* units of 1 / (2 * ScoreUnit)
MmrScore(item, selected, lambda_param) ==
    lambda_param * Relevance(item)
    - (2 - lambda_param) * MaxSimilarity(item, selected, 1) * (ScoreUnit \div 10)

\* mmr_score > -999999, without forming the product 999999 * 2 * ScoreUnit
AboveFloor(mmr_score) ==
    (mmr_score - 1) \div (2 * ScoreUnit) >= 0 - BestScoreFloor

\* the scan with "mmr_score >= best_score": the last maximiser wins
RECURSIVE ScanBestLast(_, _, _, _, _)
ScanBestLast(remaining, selected, lambda_param, idx, best_idx) ==
    IF idx > Len(remaining) THEN best_idx
    ELSE LET mmr_score == MmrScore(remaining[idx], selected, lambda_param)
             better == IF best_idx = 0 THEN AboveFloor(mmr_score)
                       ELSE mmr_score >=
                            MmrScore(remaining[best_idx], selected, lambda_param)
         IN  ScanBestLast(remaining, selected, lambda_param, idx + 1,
                          IF better THEN idx ELSE best_idx)

\* for idx, item in enumerate(remaining): keep the first item whose score is
\* strictly above the best so far; best_idx = 0 stands for best_item None
RECURSIVE ScanBest(_, _, _, _, _)
ScanBest(remaining, selected, lambda_param, idx, best_idx) ==
    IF idx > Len(remaining) THEN best_idx
    ELSE LET mmr_score == MmrScore(remaining[idx], selected, lambda_param)
             better == IF best_idx = 0 THEN AboveFloor(mmr_score)
                       ELSE mmr_score >
                            MmrScore(remaining[best_idx], selected, lambda_param)
         IN  ScanBest(remaining, selected, lambda_param, idx + 1,
                      IF better THEN idx ELSE best_idx)

\* python: list.pop(idx)
RemoveAt(seq, i) == SubSeq(seq, 1, i - 1) \o SubSeq(seq, i + 1, Len(seq))

RECURSIVE MmrLoop(_, _, _, _)
MmrLoop(selected, remaining, lambda_param, top_n) ==
    IF ~(Len(selected) < top_n /\ remaining # <<>>) THEN selected
    ELSE LET best_idx == ScanBest(remaining, selected, lambda_param, 1, 0)
         IN  IF best_idx = 0 THEN selected
             ELSE MmrLoop(Append(selected, remaining[best_idx]),
                          RemoveAt(remaining, best_idx), lambda_param, top_n)

mmr_rerank(items, lambda_param, top_n) ==
    IF items = <<>> THEN <<>>
    ELSE MmrLoop(<<>>, items, EffectiveLambda(lambda_param), top_n)

-----------------------------------------------------------------------------
(* mmr_rerank on its own: every input within the bounds *)

\* final scores 0.5 and 0.9: with lambda = 0.5 the gap of 0.4 between them
\* ties with a similarity of 0.4
RelevanceValues == {5 * (ScoreUnit \div 10), 9 * (ScoreUnit \div 10)}

\* (category, source) of an item's metadata; the last one is metadata None
Profiles == {<<"AI", "blog">>, <<"AI", "paper">>, <<"ML", "paper">>, <<None, None>>}

\* items with distinct doc ids, in DocOrder
RankedItems(n) ==
    {[i \in 1 .. n |-> ScoredItem(DocOrder[i], sc[i], sc[i], pr[i][1], pr[i][2])] :
        sc \in [1 .. n -> RelevanceValues], pr \in [1 .. n -> Profiles]}

MmrIdle ==
    /\ mmr_pc = "idle"
    /\ mmr_items = <<>>
    /\ mmr_lambda = 1
    /\ mmr_top_n = 0
    /\ mmr_out = <<>>

MmrInit ==
    /\ mmr_pc = "call"
    /\ mmr_items \in UNION {RankedItems(n) : n \in 0 .. MaxItems}
    /\ mmr_lambda \in Lambdas
    /\ mmr_top_n \in 0 .. MaxItems
    /\ mmr_out = <<>>

MmrRerankCall ==
    /\ mmr_pc = "call"
    /\ mmr_out' = mmr_rerank(mmr_items, mmr_lambda, mmr_top_n)
    /\ mmr_pc' = "returned"
    /\ UNCHANGED <<mmr_items, mmr_lambda, mmr_top_n>>
    /\ UNCHANGED <<rrf_vars, store_vars, eng_vars, gw_vars, rr_vars, hm_vars, hd_vars>>

MmrNext == MmrRerankCall

-----------------------------------------------------------------------------
(* redis_client.py: the position rule store *)

\* str.lower()
Lower(query) == IF query = "Q" THEN "q" ELSE query

\* a doc id as its pieces between colons
IdPieces(doc_id) == IF doc_id = "x:y" THEN <<"x", "y">> ELSE <<doc_id>>

\* value = f"{doc_id}:{position}", as its pieces between colons
FormatRule(doc_id, position) == Append(IdPieces(doc_id), position)

\* doc_id, position = value.split(":"); a value of more or fewer than two
\* pieces raises ValueError, which is caught: None
NoRule == [status |-> "none", doc_id |-> "", position |-> 0]
RuleFailed == [status |-> "failed", doc_id |-> "", position |-> 0]

ParseRule(value) ==
    IF value = <<>> THEN NoRule
    ELSE IF Len(value) = 2
         THEN [status |-> "rule", doc_id |-> value[1], position |-> value[2]]
         ELSE NoRule

get_position_rule(rules, query) == ParseRule(rules[Lower(query)])

-----------------------------------------------------------------------------
(* engine.py: RankingEngine *)

\* _filter_blacklist with the lookup replaced by nothing: every item is kept
filter_blacklist_keep_all(items, blacklist) == items

\* _filter_blacklist dropping everything when the lookup fails
filter_blacklist_fail_empty(items, blacklist) ==
    IF blacklist.status = "failed" THEN <<>>
    ELSE IF blacklist.ids = {} THEN items
    ELSE SelectSeq(items, LAMBDA item : item.doc_id \notin blacklist.ids)

\* _filter_blacklist, given what get_blacklist returned (Failed: it raised)
filter_blacklist(items, blacklist) ==
    IF blacklist.status = "failed" THEN items
    ELSE IF blacklist.ids = {} THEN items
    ELSE SelectSeq(items, LAMBDA item : item.doc_id \notin blacklist.ids)

\* _apply_mmr without the reordering: plain truncation
apply_mmr_truncate(items, top_n, lambda_param) == Take(items, top_n)

\* _apply_mmr, given what get_lambda_param returned
apply_mmr(items, top_n, lambda_param) == mmr_rerank(items, lambda_param, top_n)

\* index of the first item with the doc id, 0 when there is none
FirstIndexOf(items, doc_id) ==
    IF \E i \in DOMAIN items : items[i].doc_id = doc_id
    THEN CHOOSE i \in DOMAIN items :
             /\ items[i].doc_id = doc_id
             /\ \A j \in 1 .. (i - 1) : items[j].doc_id # doc_id
    ELSE 0

\* python: list.insert(index, x) with 0-based index; a negative index counts
\* from the end and is clamped at the front
PyInsert(seq, index, x) ==
    LET at == IF index < 0 THEN Max(Len(seq) + index, 0) ELSE Min(index, Len(seq))
    IN  SubSeq(seq, 1, at) \o <<x>> \o SubSeq(seq, at + 1, Len(seq))

\* _apply_position_rules that inserts the target without removing it first
apply_position_rules_no_remove(items, rule) ==
    IF rule.status # "rule" THEN items
    ELSE LET i == FirstIndexOf(items, rule.doc_id)
         IN  IF i = 0 THEN items
             ELSE PyInsert(items, Min(rule.position, Len(items)), items[i])

\* _apply_position_rules that, when the target is not in the list, moves the
\* last item instead
apply_position_rules_absent_moves_last(items, rule) ==
    IF rule.status # "rule" THEN items
    ELSE LET found == FirstIndexOf(items, rule.doc_id)
             i == IF found = 0 THEN Len(items) ELSE found
         IN  IF i = 0 THEN items
             ELSE LET rest == RemoveAt(items, i)
                  IN  PyInsert(rest, Min(rule.position, Len(rest)), items[i])

\* _apply_position_rules, given what get_position_rule returned
apply_position_rules(items, rule) ==
    IF rule.status # "rule" THEN items
    ELSE LET i == FirstIndexOf(items, rule.doc_id)
         IN  IF i = 0 THEN items
             ELSE LET rest == RemoveAt(items, i)
                  IN  PyInsert(rest, Min(rule.position, Len(rest)), items[i])

\* apply(): "if not items: return []"
EngApplyEmpty ==
    /\ eng_pc = "call"
    /\ eng_items = <<>>
    /\ eng_pc' = "returned"
    /\ UNCHANGED <<lambda_cache, eng_query, eng_arg, eng_top_n, eng_items,
                   eng_blacklist, eng_lambda, eng_rule, eng_calls, store_vars>>
    /\ UNCHANGED <<rrf_vars, mmr_vars, gw_vars, rr_vars, hm_vars, hd_vars>>

\* Step 1: items = await self._filter_blacklist(items)
EngFilterBlacklist ==
    /\ eng_pc = "call"
    /\ eng_items # <<>>
    /\ \E ok \in BOOLEAN :
         LET blacklist == IF ok THEN [status |-> "ok", ids |-> redis_blacklist]
                          ELSE [status |-> "failed", ids |-> {}]
         IN  /\ eng_blacklist' = blacklist
             /\ eng_items' = filter_blacklist(eng_items, blacklist)
    /\ eng_pc' = "mmr"
    /\ UNCHANGED <<lambda_cache, eng_query, eng_arg, eng_top_n, eng_lambda,
                   eng_rule, eng_calls, store_vars>>
    /\ UNCHANGED <<rrf_vars, mmr_vars, gw_vars, rr_vars, hm_vars, hd_vars>>

\* get_lambda_param: the cached value, else the row's value, else 0.5; the
\* value is cached in every case
GetLambdaParam(ok) ==
    IF lambda_cache # <<>> THEN [param |-> lambda_cache[1], read |-> "cache"]
    ELSE IF ~ok THEN [param |-> DefaultLambda, read |-> "error"]
    ELSE IF db_lambda = <<>> THEN [param |-> DefaultLambda, read |-> "norow"]
    ELSE [param |-> db_lambda[1], read |-> "row"]

\* Step 2: items = await self._apply_mmr(items, top_n)
EngApplyMmr ==
    /\ eng_pc = "mmr"
    /\ \E ok \in BOOLEAN :
         LET got == GetLambdaParam(ok)
         IN  /\ eng_lambda' = got
             /\ lambda_cache' = <<got.param>>
             /\ eng_items' = apply_mmr(eng_items, eng_top_n, got.param)
    /\ eng_pc' = "position"
    /\ UNCHANGED <<eng_query, eng_arg, eng_top_n, eng_blacklist, eng_rule,
                   eng_calls, store_vars>>
    /\ UNCHANGED <<rrf_vars, mmr_vars, gw_vars, rr_vars, hm_vars, hd_vars>>

\* Step 3: items = await self._apply_position_rules(query, items); return
EngApplyPositionRules ==
    /\ eng_pc = "position"
    /\ \E ok \in BOOLEAN :
         LET rule == IF ok THEN get_position_rule(redis_rules, eng_query)
                     ELSE RuleFailed
         IN  /\ eng_rule' = rule
             /\ eng_items' = apply_position_rules(eng_items, rule)
    /\ eng_pc' = "returned"
    /\ UNCHANGED <<lambda_cache, eng_query, eng_arg, eng_top_n, eng_blacklist,
                   eng_lambda, eng_calls, store_vars>>
    /\ UNCHANGED <<rrf_vars, mmr_vars, gw_vars, rr_vars, hm_vars, hd_vars>>

-----------------------------------------------------------------------------
(* RankingEngine.apply on its own: every input and store content within the *)
(* bounds                                                                   *)

\* the doc ids of the engine's input, first to last
EngineDocOrder == <<"b", "a", "d", "c">>

\* metadata of the engine's input items
EngineProfiles == {<<"AI", "blog">>, <<"ML", "paper">>}

EngineItems(n) ==
    {[i \in 1 .. n |-> ScoredItem(EngineDocOrder[i], sc[i], sc[i], pr[i][1], pr[i][2])] :
        sc \in [1 .. n -> RelevanceValues], pr \in [1 .. n -> EngineProfiles]}

Queries == {"q"}
RuleKeys == {Lower(q) : q \in Queries \cup {"q", " "}}

\* the query strings the rule endpoints are called with
RuleQueries == {"q", "Q", " "}

\* no get_position_rule since the store changed
NotAsked == [query |-> "", rule |-> NoRule]

\* a position at or beyond the end of every list of the model
FarPosition == MaxItems + 1

\* the rules an operator may have stored for the query
StoredRules ==
    {<<>>, FormatRule("a", 1), FormatRule("d", 0), FormatRule("b", FarPosition),
     FormatRule("a", 0)}

Blacklists == {{}, {"a"}}

StoreInit ==
    /\ redis_blacklist \in Blacklists
    /\ \E stored \in StoredRules :
         /\ redis_rules = [key \in RuleKeys |-> IF key = "q" THEN stored ELSE <<>>]
         /\ rule_set = [query \in RuleQueries |-> IF query = "q" THEN stored ELSE <<>>]
    /\ db_lambda \in {<<0>>, <<2>>, <<>>}
    /\ rule_got = NotAsked

StoreIdle ==
    /\ redis_blacklist = {}
    /\ redis_rules = [key \in RuleKeys |-> <<>>]
    /\ db_lambda = <<>>
    /\ rule_set = [query \in RuleQueries |-> <<>>]
    /\ rule_got = NotAsked

EngIdle ==
    /\ lambda_cache = <<>>
    /\ eng_pc = "idle"
    /\ eng_query = "q"
    /\ eng_arg = <<>>
    /\ eng_top_n = 0
    /\ eng_items = <<>>
    /\ eng_blacklist = [status |-> "unasked", ids |-> {}]
    /\ eng_lambda = [param |-> DefaultLambda, read |-> "unasked"]
    /\ eng_rule = NoRule
    /\ eng_calls = 0

EngInit ==
    /\ lambda_cache = <<>>
    /\ eng_pc = "call"
    /\ eng_query \in Queries
    /\ eng_arg \in UNION {EngineItems(n) : n \in 0 .. MaxItems}
    /\ eng_top_n \in 1 .. MaxItems
    /\ eng_items = eng_arg
    /\ eng_blacklist = [status |-> "unasked", ids |-> {}]
    /\ eng_lambda = [param |-> DefaultLambda, read |-> "unasked"]
    /\ eng_rule = NoRule
    /\ eng_calls = 1

EngNext ==
    \/ EngApplyEmpty
    \/ EngFilterBlacklist
    \/ EngApplyMmr
    \/ EngApplyPositionRules

-----------------------------------------------------------------------------
(* One RankingEngine instance over several requests: deps.py builds the     *)
(* gateway and its engine once (lru_cache), so every request calls apply on *)
(* the same instance; between two calls the lambda update endpoint may      *)
(* change the stored value.                                                 *)

\* values the endpoint accepts: lambda_param is validated to 0 <= . <= 1
EndpointLambdas == {0, 1, 2}

\* PUT /lambda: UPDATE diversity_config SET lambda_param = v WHERE id = 1 and
\* commit; without the row nothing is updated.  The engine is not told:
\* invalidate_lambda_cache is called nowhere.
UpdateLambdaConfig(v) ==
    /\ eng_pc = "returned"
    /\ eng_calls < MaxCalls
    /\ db_lambda # <<>>
    /\ db_lambda # <<v>>
    /\ db_lambda' = <<v>>
    /\ UNCHANGED <<redis_blacklist, redis_rules, rule_set, rule_got, eng_vars>>
    /\ UNCHANGED <<rrf_vars, mmr_vars, rr_vars, gw_vars, hm_vars, hd_vars>>

\* the next request: apply is called again on the same instance, here with
\* the same arguments; self._lambda_param is whatever the last call left
EngApplyAgain ==
    /\ eng_pc = "returned"
    /\ eng_calls < MaxCalls
    /\ eng_pc' = "call"
    /\ eng_items' = eng_arg
    /\ eng_blacklist' = [status |-> "unasked", ids |-> {}]
    /\ eng_lambda' = [param |-> DefaultLambda, read |-> "unasked"]
    /\ eng_rule' = NoRule
    /\ eng_calls' = eng_calls + 1
    /\ UNCHANGED <<lambda_cache, eng_query, eng_arg, eng_top_n, store_vars>>
    /\ UNCHANGED <<rrf_vars, mmr_vars, rr_vars, gw_vars, hm_vars, hd_vars>>

EngSessionNext ==
    \/ EngNext
    \/ \E v \in EndpointLambdas : UpdateLambdaConfig(v)
    \/ EngApplyAgain

-----------------------------------------------------------------------------
(* strategies/vector_strategy.py, strategies/keyword_strategy.py *)

\* most hits one store returns for one recall
MaxRecall == 2

\* the strategies the gateway is built with, by position
Strategies == <<"vector", "keyword">>

\* the documents of the two stores and their metadata (category, source)
GwDocs == {"a", "b", "d"}
GwCategory(doc) == IF doc = "d" THEN "ML" ELSE "AI"
GwSource(doc) == IF doc = "b" THEN "official" ELSE "blog"

\* VectorRecallStrategy.recall's conversion: hits come by rising L2 distance,
\* the hit at 0-based rank r has distance r; score = 1 / (1 + distance)
VectorCandidates(hits) ==
    [i \in DOMAIN hits |->
        CandidateItem(hits[i], ScoreUnit \div i, "vector",
                      GwCategory(hits[i]), GwSource(hits[i]))]

\* KeywordRecallStrategy.recall's conversion: score = float(BM25 score), the
\* hit at 0-based rank r has BM25 score MaxRecall - r
KeywordCandidates(hits) ==
    [i \in DOMAIN hits |->
        CandidateItem(hits[i], (MaxRecall + 1 - i) * ScoreUnit, "keyword",
                      GwCategory(hits[i]), GwSource(hits[i]))]

\* the field of the context a strategy checks before it asks its store
RecallInput(strategy, context) ==
    IF strategy = "vector" THEN context.query_vector ELSE context.tokens

\* what a store may answer: ranked hits without repetition, or an error; a
\* "malformed" answer makes the conversion raise
HitLists ==
    {hits \in UNION {[1 .. n -> GwDocs] : n \in 0 .. MaxRecall} :
        \A i, j \in DOMAIN hits : i # j => hits[i] # hits[j]}

RecallOutcomes ==
    {[how |-> "ok", hits |-> hits] : hits \in HitLists}
        \cup {[how |-> "client_error", hits |-> <<>>],
              [how |-> "parse_error", hits |-> <<>>]}

\* recall's return value once the store has answered; every exception is
\* caught and turned into []
recall_result(strategy, outcome) ==
    IF outcome.how # "ok" THEN <<>>
    ELSE IF strategy = "vector" THEN VectorCandidates(outcome.hits)
    ELSE KeywordCandidates(outcome.hits)

-----------------------------------------------------------------------------
(* rerank/service.py, rerank/policy.py *)

\* PolicyEngine.apply_policies without user features: the semantic score,
\* plus 0.1 for an official source
apply_policies(semantic_score, msource) ==
    IF msource = "official" THEN semantic_score + (ScoreUnit \div 10)
    ELSE semantic_score

\* _validate_descending_order raises iff some score is below its successor
IsDescending(scored_items) ==
    \A i \in 1 .. (Len(scored_items) - 1) :
        scored_items[i].final_score >= scored_items[i + 1].final_score

\* _fallback_to_candidates
fallback_to_candidates(candidates) ==
    [i \in DOMAIN candidates |->
        ScoredItem(candidates[i].doc_id, candidates[i].score, candidates[i].score,
                   candidates[i].category, candidates[i].msource)]

\* what the rerank model may answer: semantic scores by position, or an error
ModelScorings ==
    {[i \in 1 .. MaxCandidates |-> IF i = 1 THEN 9 * (ScoreUnit \div 10)
                                   ELSE 5 * (ScoreUnit \div 10)],
     [i \in 1 .. MaxCandidates |-> IF i = 1 THEN 5 * (ScoreUnit \div 10)
                                   ELSE 9 * (ScoreUnit \div 10)]}

RerankOutcomes ==
    {[how |-> "scores", scores |-> sc] : sc \in ModelScorings}
        \cup {[how |-> "model_error", scores |-> <<>>]}

\* RerankService.predict.  apply_policies and step 4 zip the candidates with
\* the scores, so both stop at the shorter list; the log line after the
\* validation reads sorted_items[0], an IndexError on an empty list, which
\* the except clause turns into the fallback.
rerank_predict(candidates, outcome) ==
    IF candidates = <<>> THEN <<>>
    ELSE IF outcome.how # "scores" THEN fallback_to_candidates(candidates)
    ELSE LET zipped == Min(Len(candidates), Len(outcome.scores))
             scored_items ==
                 [i \in 1 .. zipped |->
                     ScoredItem(candidates[i].doc_id,
                                apply_policies(outcome.scores[i], candidates[i].msource),
                                candidates[i].score,
                                candidates[i].category, candidates[i].msource)]
             sorted_items == SortDesc(scored_items, "final_score")
         IN  IF IsDescending(sorted_items) /\ sorted_items # <<>> THEN sorted_items
             ELSE fallback_to_candidates(candidates)

-----------------------------------------------------------------------------
(* RerankService.predict from its step 6 on, on its own: the list handed   *)
(* to _validate_descending_order is any arrangement of the scored items,   *)
(* sorted or not, so that both outcomes of the validation happen.          *)

\* final scores a scored item may carry
RrScores == {3 * (ScoreUnit \div 10), 5 * (ScoreUnit \div 10), 9 * (ScoreUnit \div 10)}

\* candidates as fusion hands them over: n documents, scores descending
RrCandidates(n) ==
    [i \in 1 .. n |->
        CandidateItem(DocOrder[i], ScoreUnit \div (DefaultK + i - 1), "vector",
                      "x", "m")]

\* every list of the scored items of n candidates, in any order
RrArrangements(n) ==
    {[i \in 1 .. n |->
         ScoredItem(DocOrder[perm[i]], sc[i], ScoreUnit \div (DefaultK + perm[i] - 1),
                    "x", "m")] :
       perm \in {f \in [1 .. n -> 1 .. n] : \A i, j \in 1 .. n : f[i] = f[j] => i = j},
       sc \in [1 .. n -> RrScores]}

\* predict has not asked the rerank model
NoOutcome == [how |-> "unasked", scores |-> <<>>]

RrIdle ==
    /\ rr_pc = "idle"
    /\ rr_candidates = <<>>
    /\ rr_sorted = <<>>
    /\ rr_out = <<>>
    /\ rr_outcome = NoOutcome

\* predict stands before step 6 (validation is enabled, the default)
RrInit ==
    /\ rr_pc = "validate"
    /\ \E n \in 1 .. MaxItems :
         /\ rr_candidates = RrCandidates(n)
         /\ rr_sorted \in RrArrangements(n)
    /\ rr_out = <<>>
    /\ rr_outcome = NoOutcome

\* step 6 to the end of predict: _validate_descending_order raises ValueError
\* on the first pair scores[i] < scores[i+1]; predict's "except Exception"
\* catches it and returns _fallback_to_candidates(candidates); otherwise
\* sorted_items is returned.  No path leaves predict with an exception.
RrValidateAndReturn ==
    /\ rr_pc = "validate"
    /\ IF IsDescending(rr_sorted)
          THEN rr_out' = rr_sorted
          ELSE rr_out' = fallback_to_candidates(rr_candidates)
    /\ rr_pc' = "returned"
    /\ UNCHANGED <<rr_candidates, rr_sorted, rr_outcome>>
    /\ UNCHANGED <<rrf_vars, mmr_vars, store_vars, eng_vars, gw_vars, hm_vars, hd_vars>>

RrNext == RrValidateAndReturn

-----------------------------------------------------------------------------
(* RerankService.predict on its own: every answer of the rerank model, of   *)
(* the right length or not                                                  *)

\* what predict_scores may hand back for n documents: a score list of any
\* length up to n + 1, or an exception
PredictOutcomes(n) ==
    UNION {{[how |-> "scores", scores |-> sc] : sc \in [1 .. len -> RrScores]} :
              len \in 0 .. (n + 1)}
        \cup {[how |-> "model_error", scores |-> <<>>]}

\* predict is called with the candidates of fusion
RrPredictInit ==
    /\ rr_pc = "call"
    /\ \E n \in 1 .. MaxItems : rr_candidates = RrCandidates(n)
    /\ rr_sorted = <<>>
    /\ rr_out = <<>>
    /\ rr_outcome = NoOutcome

RrPredict ==
    /\ rr_pc = "call"
    /\ \E outcome \in PredictOutcomes(Len(rr_candidates)) :
         /\ rr_outcome' = outcome
         /\ rr_out' = rerank_predict(rr_candidates, outcome)
    /\ rr_pc' = "returned"
    /\ UNCHANGED <<rr_candidates, rr_sorted>>
    /\ UNCHANGED <<rrf_vars, mmr_vars, store_vars, eng_vars, gw_vars, hm_vars, hd_vars>>

RrPredictNext == RrPredict

-----------------------------------------------------------------------------
(* search_gateway.py: SearchGateway.search *)

\* default of search's parameter recall_top_k
RecallTopK == 100

\* "if not query" alone, without the strip() test
IsBlankEmptyOnly(query) == query = ""

\* str.strip() leaves nothing
IsBlank(query) == query \in {"", " "}

NoContext == [built |-> FALSE, original_query |-> "", query_vector |-> <<>>,
              tokens |-> <<>>]

NoResult == [returned |-> FALSE, query |-> "", results |-> <<>>, total |-> 0,
             recall_stats |-> [name \in {"vector", "keyword", "merged"} |-> 0]]

Log(stage) == gw_log' = Append(gw_log, stage)

\* search(): the coroutine starts and enters _create_search_context, whose
\* gather schedules the embed and the tokenize task
GwStart ==
    /\ gw_pc = "start"
    /\ gw_pc' = "BuildContext"
    /\ Log("BuildContext")
    /\ ctx_tasks' = [t \in {"embed", "tokenize"} |-> [st |-> "running", value |-> <<>>]]
    /\ UNCHANGED <<gw_req, gw_cfg, gw_context, recall_tasks, fin_order,
                   gw_candidate_lists, gw_merged_candidates, gw_final_results, gw_result>>
    /\ UNCHANGED <<rrf_vars, mmr_vars, store_vars, eng_vars, rr_vars, hm_vars, hd_vars>>

\* what embed / analyze may return: a vector or token list, possibly empty
CtxValues(t) == IF t = "embed" THEN {<<1>>, <<>>} ELSE {<<"t">>, <<>>}

\* the embed or the tokenize task finishes: with a value, or by raising.  A
\* task is not cancelled when its sibling fails.
CtxTaskFinish(t) ==
    /\ gw_pc \in {"BuildContext", "Failed"}
    /\ ctx_tasks[t].st = "running"
    /\ \/ \E value \in CtxValues(t) :
            ctx_tasks' = [ctx_tasks EXCEPT ![t] = [st |-> "done", value |-> value]]
       \/ ctx_tasks' = [ctx_tasks EXCEPT ![t] = [st |-> "failed", value |-> <<>>]]
    /\ UNCHANGED <<gw_pc, gw_req, gw_cfg, gw_context, recall_tasks, fin_order,
                   gw_candidate_lists, gw_merged_candidates, gw_final_results, gw_result,
                   gw_log>>
    /\ UNCHANGED <<rrf_vars, mmr_vars, store_vars, eng_vars, rr_vars, hm_vars, hd_vars>>

\* asyncio.gather that never raises
CtxGatherSwallows(tasks) == FALSE

\* asyncio.gather without return_exceptions: the first failure is raised
CtxGatherRaises(tasks) == \E t \in DOMAIN tasks : tasks[t].st = "failed"

CtxGatherReturns(tasks) ==
    /\ \A t \in DOMAIN tasks : tasks[t].st # "running"
    /\ ~CtxGatherRaises(tasks)

\* the gather of _create_search_context raises; search logs and re-raises
GwContextFail ==
    /\ gw_pc = "BuildContext"
    /\ CtxGatherRaises(ctx_tasks)
    /\ gw_pc' = "Failed"
    /\ UNCHANGED <<gw_req, gw_cfg, ctx_tasks, gw_context, recall_tasks, fin_order,
                   gw_candidate_lists, gw_merged_candidates, gw_final_results, gw_result,
                   gw_log>>
    /\ UNCHANGED <<rrf_vars, mmr_vars, store_vars, eng_vars, rr_vars, hm_vars, hd_vars>>

\* the recall tasks _parallel_recall creates: one per strategy, by position,
\* each with the same context and top_k
NewRecallTasks(context, top_k) ==
    [i \in DOMAIN Strategies |->
        [st |-> "created", context |-> context, top_k |-> top_k,
         how |-> "none", result |-> <<>>]]

\* the gather of _create_search_context returns: SearchContext is built (a
\* blank query raises ValueError) and _parallel_recall creates its tasks
GwBuildContext ==
    /\ gw_pc = "BuildContext"
    /\ CtxGatherReturns(ctx_tasks)
    /\ IF IsBlank(gw_req.query)
       THEN /\ gw_pc' = "Failed"
            /\ UNCHANGED <<gw_context, recall_tasks, gw_log>>
       ELSE LET context == [built |-> TRUE, original_query |-> gw_req.query,
                            query_vector |-> ctx_tasks["embed"].value,
                            tokens |-> ctx_tasks["tokenize"].value]
            IN  /\ gw_context' = context
                /\ gw_pc' = "ParallelRecall"
                /\ Log("ParallelRecall")
                /\ recall_tasks' = NewRecallTasks(context, gw_req.recall_top_k)
    /\ UNCHANGED <<gw_req, gw_cfg, ctx_tasks, fin_order, gw_candidate_lists,
                   gw_merged_candidates, gw_final_results, gw_result>>
    /\ UNCHANGED <<rrf_vars, mmr_vars, store_vars, eng_vars, rr_vars, hm_vars, hd_vars>>

\* recall task i runs up to its first await: it returns [] at once when its
\* field of the context is empty, else it asks its store
RecallTaskStart(i) ==
    /\ gw_pc = "ParallelRecall"
    /\ recall_tasks[i].st = "created"
    /\ IF RecallInput(Strategies[i], recall_tasks[i].context) = <<>>
       THEN /\ recall_tasks' = [recall_tasks EXCEPT ![i].st = "returned",
                                                    ![i].how = "skipped"]
            /\ fin_order' = Append(fin_order, i)
       ELSE /\ recall_tasks' = [recall_tasks EXCEPT ![i].st = "awaiting"]
            /\ UNCHANGED fin_order
    /\ UNCHANGED <<gw_pc, gw_req, gw_cfg, ctx_tasks, gw_context, gw_candidate_lists,
                   gw_merged_candidates, gw_final_results, gw_result, gw_log>>
    /\ UNCHANGED <<rrf_vars, mmr_vars, store_vars, eng_vars, rr_vars, hm_vars, hd_vars>>

\* the store of recall task i answers and the task returns
RecallTaskFinish(i) ==
    /\ gw_pc = "ParallelRecall"
    /\ recall_tasks[i].st = "awaiting"
    /\ \E outcome \in RecallOutcomes :
         recall_tasks' = [recall_tasks EXCEPT
                             ![i].st = "returned",
                             ![i].how = outcome.how,
                             ![i].result = recall_result(Strategies[i], outcome)]
    /\ fin_order' = Append(fin_order, i)
    /\ UNCHANGED <<gw_pc, gw_req, gw_cfg, ctx_tasks, gw_context, gw_candidate_lists,
                   gw_merged_candidates, gw_final_results, gw_result, gw_log>>
    /\ UNCHANGED <<rrf_vars, mmr_vars, store_vars, eng_vars, rr_vars, hm_vars, hd_vars>>

\* a gather that returns as soon as one task has returned
RecallGatherReturnsEarly(tasks) == \E i \in DOMAIN tasks : tasks[i].st = "returned"

\* asyncio.gather(*tasks) returns once every task has returned
RecallGatherReturns(tasks) == \A i \in DOMAIN tasks : tasks[i].st = "returned"

\* results listed in the order the tasks finished
GatherResultsAsCompleted(tasks, order) ==
    [n \in DOMAIN order |-> tasks[order[n]].result]

\* asyncio.gather's value: the results in the order of the awaitables
GatherResults(tasks, order) == [i \in DOMAIN tasks |-> tasks[i].result]

\* _parallel_recall returns gw_candidate_lists
GwRecallJoin ==
    /\ gw_pc = "ParallelRecall"
    /\ RecallGatherReturns(recall_tasks)
    /\ gw_candidate_lists' = GatherResults(recall_tasks, fin_order)
    /\ gw_pc' = "Fuse"
    /\ UNCHANGED <<gw_req, gw_cfg, ctx_tasks, gw_context, recall_tasks, fin_order,
                   gw_merged_candidates, gw_final_results, gw_result, gw_log>>
    /\ UNCHANGED <<rrf_vars, mmr_vars, store_vars, eng_vars, rr_vars, hm_vars, hd_vars>>

\* "if enable_rerank and self.rerank_service"
RerankRuns(req, cfg) == req.enable_rerank /\ cfg.rerank_service

\* "if enable_ranking and self.ranking_engine"
RankingRuns(req, cfg) == req.enable_ranking /\ cfg.ranking_engine

\* rrf_merge's top_n without the wider pool for the reranker
FusionTopNPlain(req) == req.top_n

\* rrf_merge's top_n: top_n if not enable_rerank else top_n * 2
FusionTopN(req) == IF ~req.enable_rerank THEN req.top_n ELSE req.top_n * 2

\* Step 3, and Step 4 when reranking does not run
GwFuse ==
    /\ gw_pc = "Fuse"
    /\ Log("Fuse")
    /\ LET merged == rrf_merge(gw_candidate_lists, FusionTopN(gw_req), DefaultK)
       IN  /\ gw_merged_candidates' = merged
           /\ IF RerankRuns(gw_req, gw_cfg)
              THEN /\ gw_pc' = "Rerank"
                   /\ UNCHANGED gw_final_results
              ELSE /\ gw_pc' = "Ranking"
                   /\ gw_final_results' = Take(merged, gw_req.top_n)
    /\ UNCHANGED <<gw_req, gw_cfg, ctx_tasks, gw_context, recall_tasks, fin_order,
                   gw_candidate_lists, gw_result>>
    /\ UNCHANGED <<rrf_vars, mmr_vars, store_vars, eng_vars, rr_vars, hm_vars, hd_vars>>

\* Step 4 when reranking runs
GwRerank ==
    /\ gw_pc = "Rerank"
    /\ Log("Rerank")
    /\ \E outcome \in RerankOutcomes :
         LET scored_items == rerank_predict(gw_merged_candidates, outcome)
         IN  gw_final_results' = Take(SortDesc(scored_items, "final_score"), gw_req.top_n)
    /\ gw_pc' = "Ranking"
    /\ UNCHANGED <<gw_req, gw_cfg, ctx_tasks, gw_context, recall_tasks, fin_order,
                   gw_candidate_lists, gw_merged_candidates, gw_result>>
    /\ UNCHANGED <<rrf_vars, mmr_vars, store_vars, eng_vars, rr_vars, hm_vars, hd_vars>>

\* Step 5: search calls ranking_engine.apply(query, gw_final_results, top_n)
GwApplyRanking ==
    /\ gw_pc = "Ranking"
    /\ RankingRuns(gw_req, gw_cfg)
    /\ Log("RankingEngine")
    /\ gw_pc' = "RankingEngine"
    /\ eng_pc' = "call"
    /\ eng_query' = gw_req.query
    /\ eng_arg' = gw_final_results
    /\ eng_items' = gw_final_results
    /\ eng_top_n' = gw_req.top_n
    /\ eng_calls' = eng_calls + 1
    /\ UNCHANGED <<lambda_cache, eng_blacklist, eng_lambda, eng_rule>>
    /\ UNCHANGED <<gw_req, gw_cfg, ctx_tasks, gw_context, recall_tasks, fin_order,
                   gw_candidate_lists, gw_merged_candidates, gw_final_results, gw_result>>
    /\ UNCHANGED <<rrf_vars, mmr_vars, store_vars, rr_vars, hm_vars, hd_vars>>

\* Step 5 is skipped
GwSkipRanking ==
    /\ gw_pc = "Ranking"
    /\ ~RankingRuns(gw_req, gw_cfg)
    /\ gw_pc' = "BuildResult"
    /\ UNCHANGED <<gw_req, gw_cfg, ctx_tasks, gw_context, recall_tasks, fin_order,
                   gw_candidate_lists, gw_merged_candidates, gw_final_results, gw_result,
                   gw_log>>
    /\ UNCHANGED <<rrf_vars, mmr_vars, store_vars, eng_vars, rr_vars, hm_vars, hd_vars>>

\* ranking_engine.apply returns to search
GwRankingReturn ==
    /\ gw_pc = "RankingEngine"
    /\ eng_pc = "returned"
    /\ gw_final_results' = eng_items
    /\ eng_pc' = "idle"
    /\ gw_pc' = "BuildResult"
    /\ UNCHANGED <<lambda_cache, eng_query, eng_arg, eng_top_n, eng_items,
                   eng_blacklist, eng_lambda, eng_rule, eng_calls>>
    /\ UNCHANGED <<gw_req, gw_cfg, ctx_tasks, gw_context, recall_tasks, fin_order,
                   gw_candidate_lists, gw_merged_candidates, gw_result, gw_log>>
    /\ UNCHANGED <<rrf_vars, mmr_vars, store_vars, rr_vars, hm_vars, hd_vars>>

\* the object has an attribute "score": a CandidateItem has, a ScoredItem not
HasScore(item) == item.kind = "CandidateItem"

\* _build_search_result
build_search_result(query, results, lists) ==
    [returned |-> TRUE, query |-> query,
     results |-> [i \in DOMAIN results |->
                     [doc_id |-> results[i].doc_id, score |-> results[i].score]],
     total |-> Len(results),
     recall_stats |->
         [name \in {"vector", "keyword", "merged"} |->
             IF name = "merged" THEN Len(results)
             ELSE Len(lists[CHOOSE i \in DOMAIN Strategies : Strategies[i] = name])]]

\* Step 6: item.score of an object without that attribute raises
\* AttributeError, which search logs and re-raises
GwBuildResult ==
    /\ gw_pc = "BuildResult"
    /\ Log("BuildResult")
    /\ IF \A i \in DOMAIN gw_final_results : HasScore(gw_final_results[i])
       THEN /\ gw_result' = build_search_result(gw_req.query, gw_final_results,
                                                gw_candidate_lists)
            /\ gw_pc' = "Done"
       ELSE /\ gw_pc' = "Failed"
            /\ UNCHANGED gw_result
    /\ UNCHANGED <<gw_req, gw_cfg, ctx_tasks, gw_context, recall_tasks, fin_order,
                   gw_candidate_lists, gw_merged_candidates, gw_final_results>>
    /\ UNCHANGED <<rrf_vars, mmr_vars, store_vars, eng_vars, rr_vars, hm_vars, hd_vars>>

\* a query, the whitespace query and the empty query
GwQueries == {"q", " ", ""}

\* the optional services of the constructor: both given, only the ranking
\* engine (as deps.py builds the gateway), neither
GwConfigs ==
    {[rerank_service |-> TRUE, ranking_engine |-> TRUE],
     [rerank_service |-> FALSE, ranking_engine |-> TRUE],
     [rerank_service |-> FALSE, ranking_engine |-> FALSE]}

GwIdle ==
    /\ gw_pc = "idle"
    /\ gw_req = [query |-> "q", top_n |-> 1, recall_top_k |-> RecallTopK,
                 enable_rerank |-> FALSE, enable_ranking |-> FALSE]
    /\ gw_cfg = [rerank_service |-> FALSE, ranking_engine |-> FALSE]
    /\ ctx_tasks = [t \in {"embed", "tokenize"} |-> [st |-> "idle", value |-> <<>>]]
    /\ gw_context = NoContext
    /\ recall_tasks = <<>>
    /\ fin_order = <<>>
    /\ gw_candidate_lists = <<>>
    /\ gw_merged_candidates = <<>>
    /\ gw_final_results = <<>>
    /\ gw_result = NoResult
    /\ gw_log = <<>>

GwInit ==
    /\ gw_pc = "start"
    /\ gw_req \in [query : GwQueries, top_n : 1 .. MaxRecall,
                   recall_top_k : {RecallTopK},
                   enable_rerank : BOOLEAN, enable_ranking : BOOLEAN]
    /\ gw_cfg \in GwConfigs
    /\ ctx_tasks = [t \in {"embed", "tokenize"} |-> [st |-> "idle", value |-> <<>>]]
    /\ gw_context = NoContext
    /\ recall_tasks = <<>>
    /\ fin_order = <<>>
    /\ gw_candidate_lists = <<>>
    /\ gw_merged_candidates = <<>>
    /\ gw_final_results = <<>>
    /\ gw_result = NoResult
    /\ gw_log = <<>>

\* what the stores hold while a search runs: a rule for the query and a
\* lambda row (each lookup may still fail), and either blacklist
GwStoreInit ==
    /\ redis_blacklist \in Blacklists
    /\ redis_rules = [key \in RuleKeys |-> IF key = "q" THEN FormatRule("d", 0) ELSE <<>>]
    /\ db_lambda = <<2>>
    /\ rule_set = [query \in RuleQueries |-> IF query = "q" THEN <<"d", 0>> ELSE <<>>]
    /\ rule_got = NotAsked

GwNext ==
    \/ GwStart
    \/ \E t \in {"embed", "tokenize"} : CtxTaskFinish(t)
    \/ GwContextFail
    \/ GwBuildContext
    \/ \E i \in DOMAIN Strategies : RecallTaskStart(i)
    \/ \E i \in DOMAIN Strategies : RecallTaskFinish(i)
    \/ GwRecallJoin
    \/ GwFuse
    \/ GwRerank
    \/ GwApplyRanking
    \/ EngApplyEmpty
    \/ EngFilterBlacklist
    \/ EngApplyMmr
    \/ EngApplyPositionRules
    \/ GwSkipRanking
    \/ GwRankingReturn
    \/ GwBuildResult

-----------------------------------------------------------------------------
(* redis_client.py: the position rule store and its callers.  The rules    *)
(* are set and deleted through the endpoints of ranking.py and read by     *)
(* RankingEngine._apply_position_rules.                                    *)

\* doc ids a rule may name: one without and one with a colon
RuleDocIds == {"a", "x:y"}

\* positions a rule may carry (PositionRuleRequest: position >= 0)
RulePositions == 0 .. (MaxItems - 2)

\* set_position_rule(query, doc_id, position): SET position_rules:<lower> "<doc_id>:<position>"
SetPositionRule ==
    \E query \in RuleQueries, doc_id \in RuleDocIds, position \in RulePositions :
        /\ redis_rules' = [redis_rules EXCEPT ![Lower(query)] = FormatRule(doc_id, position)]
        /\ rule_set' = [rule_set EXCEPT ![query] = <<doc_id, position>>]
        /\ rule_got' = NotAsked
        /\ UNCHANGED <<redis_blacklist, db_lambda>>
        /\ UNCHANGED <<rrf_vars, mmr_vars, eng_vars, rr_vars, gw_vars, hm_vars, hd_vars>>

\* delete_position_rule(query): DEL position_rules:<lower>
DeletePositionRule ==
    \E query \in RuleQueries :
        /\ redis_rules[Lower(query)] # <<>>
        /\ redis_rules' = [redis_rules EXCEPT ![Lower(query)] = <<>>]
        /\ rule_set' = [rule_set EXCEPT ![query] = <<>>]
        /\ rule_got' = NotAsked
        /\ UNCHANGED <<redis_blacklist, db_lambda>>
        /\ UNCHANGED <<rrf_vars, mmr_vars, eng_vars, rr_vars, gw_vars, hm_vars, hd_vars>>

\* get_position_rule(query), as the engine calls it for the query of a search
GetPositionRule ==
    \E query \in RuleQueries :
        /\ rule_got = NotAsked
        /\ rule_got' = [query |-> query, rule |-> get_position_rule(redis_rules, query)]
        /\ UNCHANGED <<redis_blacklist, redis_rules, db_lambda, rule_set>>
        /\ UNCHANGED <<rrf_vars, mmr_vars, eng_vars, rr_vars, gw_vars, hm_vars, hd_vars>>

RuleStoreNext ==
    \/ SetPositionRule
    \/ DeletePositionRule
    \/ GetPositionRule

-----------------------------------------------------------------------------
(* hot_search/merge.py: merge_and_rank *)

\* first loop: the keywords kept from raw_items, first occurrences in order;
\* empty and blocked keywords are skipped
RECURSIVE OrderedKeywords(_, _, _, _)
OrderedKeywords(raw_items, blocked_words, i, ordered_keywords) ==
    IF i > Len(raw_items) THEN ordered_keywords
    ELSE LET keyword == raw_items[i][1]
             skip == \/ keyword = ""
                     \/ keyword \in blocked_words
                     \/ \E j \in DOMAIN ordered_keywords : ordered_keywords[j] = keyword
         IN  OrderedKeywords(raw_items, blocked_words, i + 1,
                             IF skip THEN ordered_keywords
                             ELSE Append(ordered_keywords, keyword))

\* score_map.get(keyword, 0.0): the score of the last raw item with the
\* keyword that was not skipped as empty or blocked
ScoreMapGet(raw_items, blocked_words, keyword) ==
    LET hits == {i \in DOMAIN raw_items :
                    /\ raw_items[i][1] = keyword
                    /\ keyword # ""
                    /\ keyword \notin blocked_words}
    IN  IF hits = {} THEN 0
        ELSE raw_items[CHOOSE i \in hits : \A j \in hits : j <= i][2]

\* the ranks in ascending order
RECURSIVE SortedRanks(_)
SortedRanks(ranks) ==
    IF ranks = {} THEN <<>>
    ELSE LET lo == CHOOSE r \in ranks : \A q \in ranks : r <= q
         IN  <<lo>> \o SortedRanks(ranks \ {lo})

\* normalized_pins: the pins with 0 < rank <= limit and a non-empty word,
\* sorted by rank
NormalizedPins(pinned_positions, limit) ==
    LET ranks == SortedRanks({r \in DOMAIN pinned_positions :
                                 /\ 0 < r
                                 /\ r <= limit
                                 /\ pinned_positions[r] # ""})
    IN  [i \in DOMAIN ranks |-> <<ranks[i], pinned_positions[ranks[i]]>>]

\* deduped_pins that keeps a blocked word
RECURSIVE DedupedPinsKeepBlocked(_, _, _, _)
DedupedPinsKeepBlocked(normalized_pins, blocked_words, i, deduped_pins) ==
    IF i > Len(normalized_pins) THEN deduped_pins
    ELSE LET word == normalized_pins[i][2]
             skip == \E j \in DOMAIN deduped_pins : deduped_pins[j][2] = word
         IN  DedupedPinsKeepBlocked(normalized_pins, blocked_words, i + 1,
                                    IF skip THEN deduped_pins
                                    ELSE Append(deduped_pins, normalized_pins[i]))

\* deduped_pins: blocked words and words already pinned at a lower rank are
\* skipped
RECURSIVE DedupedPins(_, _, _, _)
DedupedPins(normalized_pins, blocked_words, i, deduped_pins) ==
    IF i > Len(normalized_pins) THEN deduped_pins
    ELSE LET word == normalized_pins[i][2]
             skip == \/ word \in blocked_words
                     \/ \E j \in DOMAIN deduped_pins : deduped_pins[j][2] = word
         IN  DedupedPins(normalized_pins, blocked_words, i + 1,
                         IF skip THEN deduped_pins
                         ELSE Append(deduped_pins, normalized_pins[i]))

\* the insertion loop that always appends
RECURSIVE InsertPinsAtEnd(_, _, _)
InsertPinsAtEnd(final_keywords, deduped_pins, i) ==
    IF i > Len(deduped_pins) THEN final_keywords
    ELSE InsertPinsAtEnd(Append(final_keywords, deduped_pins[i][2]), deduped_pins, i + 1)

\* the insertion loop: index = rank - 1; append when the list is too short,
\* else list.insert(index, word)
RECURSIVE InsertPins(_, _, _)
InsertPins(final_keywords, deduped_pins, i) ==
    IF i > Len(deduped_pins) THEN final_keywords
    ELSE LET index == Max(deduped_pins[i][1] - 1, 0)
             word == deduped_pins[i][2]
         IN  InsertPins(IF index >= Len(final_keywords)
                        THEN Append(final_keywords, word)
                        ELSE PyInsert(final_keywords, index, word),
                        deduped_pins, i + 1)

MergedTrendingItem(keyword, heat_score, is_pinned) ==
    [keyword |-> keyword, heat_score |-> heat_score, is_pinned |-> is_pinned]

merge_and_rank(raw_items, blocked_words, pinned_positions, limit) ==
    IF limit <= 0 THEN <<>>
    ELSE LET ordered_keywords == OrderedKeywords(raw_items, blocked_words, 1, <<>>)
             normalized_pins == NormalizedPins(pinned_positions, limit)
             deduped_pins == DedupedPins(normalized_pins, blocked_words, 1, <<>>)
             pinned_words == {deduped_pins[i][2] : i \in DOMAIN deduped_pins}
             base_keywords == SelectSeq(ordered_keywords,
                                        LAMBDA keyword : keyword \notin pinned_words)
             final_keywords == InsertPins(base_keywords, deduped_pins, 1)
             cut == Take(final_keywords, limit)
         IN  [i \in DOMAIN cut |->
                 MergedTrendingItem(cut[i],
                                    ScoreMapGet(raw_items, blocked_words, cut[i]),
                                    cut[i] \in pinned_words)]

-----------------------------------------------------------------------------
(* merge_and_rank on its own: every input within the bounds *)

\* keywords of the hot list ("" is an empty keyword) and words to pin; x is
\* in no raw list
RawKeywords == {"a", "b", ""}
PinWords == {"a", "x"}
BlockedSets == SUBSET {"a", "b"}

\* ranks a pin may carry: 0 and MaxRaw + 1 are outside every limit
PinRanks == 0 .. (MaxRaw + 1)

\* raw items: the score of the item at place i is MaxRaw + 1 - i
RawLists ==
    UNION {{[i \in 1 .. n |-> <<kw[i], MaxRaw + 1 - i>>] : kw \in [1 .. n -> RawKeywords]} :
              n \in 0 .. MaxRaw}

\* pinned_positions: a dict of at most MaxRaw pins
PinnedMaps ==
    UNION {[ranks -> PinWords] :
              ranks \in {R \in SUBSET PinRanks : Cardinality(R) <= MaxRaw}}

HmIdle ==
    /\ hm_pc = "idle"
    /\ hm_raw = <<>>
    /\ hm_blocked = {}
    /\ hm_pinned = <<>>
    /\ hm_limit = 0
    /\ hm_out = <<>>

HmInit ==
    /\ hm_pc = "call"
    /\ hm_raw \in RawLists
    /\ hm_blocked \in BlockedSets
    /\ hm_pinned \in PinnedMaps
    /\ hm_limit \in 0 .. MaxRaw
    /\ hm_out = <<>>

HmMergeCall ==
    /\ hm_pc = "call"
    /\ hm_out' = merge_and_rank(hm_raw, hm_blocked, hm_pinned, hm_limit)
    /\ hm_pc' = "returned"
    /\ UNCHANGED <<hm_raw, hm_blocked, hm_pinned, hm_limit>>
    /\ UNCHANGED <<rrf_vars, mmr_vars, store_vars, eng_vars, rr_vars, gw_vars, hd_vars>>

HmNext == HmMergeCall

-----------------------------------------------------------------------------
(* hot_search/service.py, hot_search/repository.py: decay_once and         *)
(* record_search_action against one Redis.  Every Redis command (and every *)
(* pipeline and the Lua script) is one atomic step; the invocations        *)
(* interleave between their commands.                                      *)

RECURSIVE Pow(_, _)
Pow(b, e) == IF e = 0 THEN 1 ELSE b * Pow(b, e - 1)

\* factors are counted in tenths: HotSearchService's base_decay_factor 0.9
BaseDecayFactor == 9
FactorOne == 10

\* scores are counted in 1/HotUnit, so that every product with a factor and
\* every quotient by the base factor of a run is exact; base_increment 1.0
HotUnit == Pow(BaseDecayFactor * FactorOne, MaxExpiries + 1)
BaseIncrement == HotUnit

\* a keyword of the hot list and one that is not in it at the start
HotKeywords == {"a", "n"}

\* the decay factors set_boosts accepts: base <= factor <= 1.0
DecayFactorChoices == {<<>>, <<BaseDecayFactor>>, <<FactorOne>>}

\* SET key "1" NX EX ttl without NX
try_acquire_decay_lock_without_nx(lock) == TRUE

\* try_acquire_decay_lock: SET key "1" NX EX ttl succeeds iff the key is absent
try_acquire_decay_lock(lock) == ~lock

\* ZUNIONSTORE tmp {hot_list: factor}: every member's score times the factor
ZUnionWeighted(zset, factor) ==
    [k \in HotKeywords |-> IF zset[k] = <<>> THEN <<>>
                           ELSE <<(zset[k][1] * factor) \div FactorOne>>]

\* ZINCRBY: a missing member counts as 0
ZIncrBy(zset, keyword, delta) ==
    [zset EXCEPT ![keyword] = IF zset[keyword] = <<>> THEN <<delta>>
                              ELSE <<zset[keyword][1] + delta>>]

ZEmpty(zset) == \A k \in HotKeywords : zset[k] = <<>>

NoFactors == [k \in HotKeywords |-> <<>>]

\* apply_decay_corrections: diff = score * (factor / base - 1) for a keyword
\* with a factor other than base and a score read; 0 means no ZINCRBY
CorrectionDiff(score, factor, base_factor) ==
    IF score = <<>> \/ factor = <<>> THEN 0
    ELSE IF factor[1] = base_factor THEN 0
    ELSE (score[1] * factor[1]) \div base_factor - score[1]

RECURSIVE ApplyCorrections(_, _, _, _)
ApplyCorrections(zset, todo, scores, decay_factors) ==
    IF todo = {} THEN zset
    ELSE LET k == CHOOSE x \in todo : TRUE
             diff == CorrectionDiff(scores[k], decay_factors[k], BaseDecayFactor)
         IN  ApplyCorrections(IF diff = 0 THEN zset ELSE ZIncrBy(zset, k, diff),
                              todo \ {k}, scores, decay_factors)

\* a decay_once invocation before its first command
DecStart ==
    [pc |-> "start", acquired |-> FALSE, ret |-> "", wrote |-> FALSE,
     factors |-> NoFactors, scores |-> NoFactors]

HdInit ==
    /\ \E present \in BOOLEAN :
         /\ hot_list0 = [k \in HotKeywords |->
                            IF k = "a" /\ present THEN <<HotUnit>> ELSE <<>>]
         /\ hot_list = hot_list0
    /\ tmp_decay = <<>>
    /\ decay_lock = FALSE
    /\ boost_decay_factors \in [HotKeywords -> DecayFactorChoices]
    /\ lock_expiries = 0
    /\ dec = [i \in 1 .. MaxDecays |-> DecStart]
    /\ \E keyword \in HotKeywords : rec = [pc |-> "call", keyword |-> keyword]

\* decay_once: acquired = try_acquire_decay_lock(ttl); if not acquired: return False
DecAcquire(i) ==
    /\ dec[i].pc = "start"
    /\ IF try_acquire_decay_lock(decay_lock)
          THEN /\ decay_lock' = TRUE
               /\ dec' = [dec EXCEPT ![i].pc = "union", ![i].acquired = TRUE]
          ELSE /\ decay_lock' = decay_lock
               /\ dec' = [dec EXCEPT ![i].pc = "done", ![i].ret = "False"]
    /\ UNCHANGED <<hot_list, tmp_decay, boost_decay_factors, hot_list0, lock_expiries, rec>>
    /\ UNCHANGED <<rrf_vars, mmr_vars, store_vars, eng_vars, rr_vars, gw_vars, hm_vars>>

\* apply_global_decay, first command: ZUNIONSTORE tmp {hot_list: base}.  An
\* empty result stores nothing and deletes the destination.
DecUnion(i) ==
    /\ dec[i].pc = "union"
    /\ tmp_decay' = IF ZEmpty(hot_list) THEN <<>>
                    ELSE <<ZUnionWeighted(hot_list, BaseDecayFactor)>>
    /\ dec' = [dec EXCEPT ![i].pc = "rename"]
    /\ UNCHANGED <<hot_list, decay_lock, boost_decay_factors, hot_list0, lock_expiries, rec>>
    /\ UNCHANGED <<rrf_vars, mmr_vars, store_vars, eng_vars, rr_vars, gw_vars, hm_vars>>

\* apply_global_decay, second command: RENAME tmp hot_list.  A missing source
\* key is an error reply, which decay_once does not catch.
DecRename(i) ==
    /\ dec[i].pc = "rename"
    /\ IF tmp_decay = <<>>
          THEN /\ dec' = [dec EXCEPT ![i].pc = "raised"]
               /\ UNCHANGED <<hot_list, tmp_decay>>
          ELSE /\ hot_list' = tmp_decay[1]
               /\ tmp_decay' = <<>>
               /\ dec' = [dec EXCEPT ![i].pc = "factors", ![i].wrote = TRUE]
    /\ UNCHANGED <<decay_lock, boost_decay_factors, hot_list0, lock_expiries, rec>>
    /\ UNCHANGED <<rrf_vars, mmr_vars, store_vars, eng_vars, rr_vars, gw_vars, hm_vars>>

\* decay_factors = get_all_decay_factors(); if not decay_factors: return True
DecFactors(i) ==
    /\ dec[i].pc = "factors"
    /\ IF boost_decay_factors = NoFactors
          THEN dec' = [dec EXCEPT ![i].pc = "done", ![i].ret = "True"]
          ELSE dec' = [dec EXCEPT ![i].pc = "scores", ![i].factors = boost_decay_factors]
    /\ UNCHANGED <<hot_list, tmp_decay, decay_lock, boost_decay_factors, hot_list0,
                   lock_expiries, rec>>
    /\ UNCHANGED <<rrf_vars, mmr_vars, store_vars, eng_vars, rr_vars, gw_vars, hm_vars>>

\* apply_decay_corrections, first pipeline: ZSCORE of every keyword with a factor
DecScores(i) ==
    /\ dec[i].pc = "scores"
    /\ dec' = [dec EXCEPT ![i].pc = "adjust",
                          ![i].scores = [k \in HotKeywords |->
                                            IF dec[i].factors[k] = <<>> THEN <<>>
                                            ELSE hot_list[k]]]
    /\ UNCHANGED <<hot_list, tmp_decay, decay_lock, boost_decay_factors, hot_list0,
                   lock_expiries, rec>>
    /\ UNCHANGED <<rrf_vars, mmr_vars, store_vars, eng_vars, rr_vars, gw_vars, hm_vars>>

\* apply_decay_corrections, second pipeline: the ZINCRBYs; return True
DecAdjust(i) ==
    /\ dec[i].pc = "adjust"
    /\ hot_list' = ApplyCorrections(hot_list, HotKeywords, dec[i].scores, dec[i].factors)
    /\ dec' = [dec EXCEPT ![i].pc = "done", ![i].ret = "True",
                          ![i].wrote = dec[i].wrote \/ hot_list' # hot_list]
    /\ UNCHANGED <<tmp_decay, decay_lock, boost_decay_factors, hot_list0, lock_expiries, rec>>
    /\ UNCHANGED <<rrf_vars, mmr_vars, store_vars, eng_vars, rr_vars, gw_vars, hm_vars>>

\* record_search_action -> incr_hot_score: the Lua script, ZINCRBY by
\* base_increment (no search boost is set)
RecordSearchAction ==
    /\ rec.pc = "call"
    /\ hot_list' = ZIncrBy(hot_list, rec.keyword, BaseIncrement)
    /\ rec' = [rec EXCEPT !.pc = "done"]
    /\ UNCHANGED <<tmp_decay, decay_lock, boost_decay_factors, hot_list0, lock_expiries, dec>>
    /\ UNCHANGED <<rrf_vars, mmr_vars, store_vars, eng_vars, rr_vars, gw_vars, hm_vars>>

\* the lock key's TTL runs out (EX ttl)
LockExpire ==
    /\ decay_lock
    /\ lock_expiries < MaxExpiries
    /\ decay_lock' = FALSE
    /\ lock_expiries' = lock_expiries + 1
    /\ UNCHANGED <<hot_list, tmp_decay, boost_decay_factors, hot_list0, dec, rec>>
    /\ UNCHANGED <<rrf_vars, mmr_vars, store_vars, eng_vars, rr_vars, gw_vars, hm_vars>>

HdNext ==
    \/ \E i \in 1 .. MaxDecays :
         \/ DecAcquire(i)
         \/ DecUnion(i)
         \/ DecRename(i)
         \/ DecFactors(i)
         \/ DecScores(i)
         \/ DecAdjust(i)
    \/ RecordSearchAction
    \/ LockExpire

\* nothing of the decay is running
HdIdle ==
    /\ hot_list = <<>>
    /\ tmp_decay = <<>>
    /\ decay_lock = FALSE
    /\ boost_decay_factors = <<>>
    /\ hot_list0 = <<>>
    /\ lock_expiries = 0
    /\ dec = <<>>
    /\ rec = <<>>

-----------------------------------------------------------------------------
(* Specifications *)

InitRRF == RrfInit /\ MmrIdle /\ StoreIdle /\ EngIdle /\ RrIdle /\ GwIdle /\ HmIdle /\ HdIdle
SpecRRF == InitRRF /\ [][RrfNext]_vars

InitRRFMaybeId == RrfMaybeIdInit /\ MmrIdle /\ StoreIdle /\ EngIdle /\ RrIdle /\ GwIdle /\ HmIdle /\ HdIdle
SpecRRFMaybeId == InitRRFMaybeId /\ [][RrfNext]_vars

InitMerge == HmInit /\ HdIdle /\ RrfIdle /\ MmrIdle /\ StoreIdle /\ EngIdle /\ RrIdle /\ GwIdle
SpecMerge == InitMerge /\ [][HmNext]_vars

InitMMR == MmrInit /\ RrfIdle /\ StoreIdle /\ EngIdle /\ RrIdle /\ GwIdle /\ HmIdle /\ HdIdle
SpecMMR == InitMMR /\ [][MmrNext]_vars

InitEngine == EngInit /\ StoreInit /\ RrfIdle /\ MmrIdle /\ RrIdle /\ GwIdle /\ HmIdle /\ HdIdle
SpecEngine == InitEngine /\ [][EngNext]_vars

InitPredict == RrPredictInit /\ RrfIdle /\ MmrIdle /\ StoreIdle /\ EngIdle /\ GwIdle /\ HmIdle /\ HdIdle
SpecPredict == InitPredict /\ [][RrPredictNext]_vars

InitRuleStore == StoreIdle /\ RrfIdle /\ MmrIdle /\ EngIdle /\ RrIdle /\ GwIdle /\ HmIdle /\ HdIdle
SpecRuleStore == InitRuleStore /\ [][RuleStoreNext]_vars

InitDecay == HdInit /\ HmIdle /\ RrfIdle /\ MmrIdle /\ StoreIdle /\ EngIdle /\ RrIdle /\ GwIdle
SpecDecay == InitDecay /\ [][HdNext]_vars

InitRerank == RrInit /\ RrfIdle /\ MmrIdle /\ StoreIdle /\ EngIdle /\ GwIdle /\ HmIdle /\ HdIdle
SpecRerank == InitRerank /\ [][RrNext]_vars

InitEngineSession == InitEngine
SpecEngineSession == InitEngineSession /\ [][EngSessionNext]_vars

Init == GwInit /\ GwStoreInit /\ EngIdle /\ RrfIdle /\ MmrIdle /\ RrIdle /\ HmIdle /\ HdIdle
Spec == Init /\ [][GwNext]_vars

-----------------------------------------------------------------------------
(* C1 *)

\* every (list, rank) place of the input holding doc id d
Occurrences(lists, d) ==
    {p \in UNION {{<<li, r>> : r \in 0 .. (Len(lists[li]) - 1)} : li \in DOMAIN lists} :
        lists[p[1]][p[2] + 1].doc_id = d}

RECURSIVE SumReciprocal(_, _)
SumReciprocal(places, k) ==
    IF places = {} THEN 0
    ELSE LET p == CHOOSE q \in places : TRUE
         IN  (RrfScale(k) \div (k + p[2])) + SumReciprocal(places \ {p}, k)

RefFusedScore(lists, d, k) == SumReciprocal(Occurrences(lists, d), k)

InputDocIds(lists) ==
    UNION {{lists[li][r].doc_id : r \in DOMAIN lists[li]} : li \in DOMAIN lists}

\* place of d's first occurrence in the concatenation of the lists
FirstSeen(lists, d) ==
    LET p == CHOOSE q \in Occurrences(lists, d) :
                 \A o \in Occurrences(lists, d) :
                     q[1] < o[1] \/ (q[1] = o[1] /\ q[2] <= o[2])
    IN  p

RefBefore(lists, k, d1, d2) ==
    LET s1 == RefFusedScore(lists, d1, k)
        s2 == RefFusedScore(lists, d2, k)
        f1 == FirstSeen(lists, d1)
        f2 == FirstSeen(lists, d2)
    IN  \/ s1 > s2
        \/ s1 = s2 /\ (f1[1] < f2[1] \/ (f1[1] = f2[1] /\ f1[2] < f2[2]))

\* C1: rrf_merge returns the reference result: the i-th returned item is the
\* doc id that exactly i-1 distinct ids precede in the order (fused score
\* descending, then first appearance), it carries the sum of 1/(k + r) over
\* its occurrences as score, and the list has min(top_n, distinct ids) items.
C1_RrfMatchesReference ==
    rrf_pc = "returned" =>
        LET ids == InputDocIds(rrf_lists)
        IN  /\ Len(rrf_out) = Min(rrf_top_n, Cardinality(ids))
            /\ \A i \in DOMAIN rrf_out :
                 /\ rrf_out[i].doc_id \in ids
                 /\ Cardinality({d \in ids :
                        RefBefore(rrf_lists, rrf_k, d, rrf_out[i].doc_id)}) = i - 1
                 /\ rrf_out[i].score = RefFusedScore(rrf_lists, rrf_out[i].doc_id, rrf_k)

\* the spec's end-to-end example: vector [a, b, c], keyword [b, d], k = 60,
\* top_n = 3 gives [b, a, d]
C1_Witness ==
    /\ rrf_pc = "returned"
    /\ Len(rrf_lists) = 2
    /\ DocIds(rrf_lists[1]) = <<"a", "b", "c">>
    /\ DocIds(rrf_lists[2]) = <<"b", "d">>
    /\ rrf_k = 60
    /\ rrf_top_n = 3
    /\ DocIds(rrf_out) = <<"b", "a", "d">>

-----------------------------------------------------------------------------
(* C2 *)

\* positions of the recall tasks whose store call or result parsing failed
FailedBranches ==
    {i \in DOMAIN recall_tasks : recall_tasks[i].how \in {"client_error", "parse_error"}}

\* the ranking engine is off, or no recalled candidate is on the blacklist
NothingBlacklisted ==
    \/ ~RankingRuns(gw_req, gw_cfg)
    \/ \A i \in DOMAIN recall_tasks : \A r \in DOMAIN recall_tasks[i].result :
          recall_tasks[i].result[r].doc_id \notin redis_blacklist

\* C2: a recall strategy whose client call or parsing failed contributes an
\* empty list; the search does not fail; and once it is done, if another
\* strategy returned a candidate (top_n >= 1, engine off or nothing
\* blacklisted), the SearchResult is non-empty and recall_stats holds 0 for
\* the failed strategy
C2_FanOutIsolation ==
    FailedBranches # {} =>
        /\ \A i \in FailedBranches : recall_tasks[i].result = <<>>
        /\ gw_pc # "Failed"
        /\ (/\ gw_pc = "Done"
            /\ gw_req.top_n >= 1
            /\ \E j \in DOMAIN recall_tasks : recall_tasks[j].result # <<>>
            /\ NothingBlacklisted)
           => /\ gw_result.results # <<>>
              /\ \A i \in FailedBranches : gw_result.recall_stats[Strategies[i]] = 0

-----------------------------------------------------------------------------
(* C3 *)

\* the stages of one search, given its arguments and the gateway's services
ExpectedStages(req, cfg) ==
    <<"BuildContext", "ParallelRecall", "Fuse">>
        \o (IF req.enable_rerank /\ cfg.rerank_service THEN <<"Rerank">> ELSE <<>>)
        \o (IF req.enable_ranking /\ cfg.ranking_engine THEN <<"RankingEngine">> ELSE <<>>)
        \o <<"BuildResult">>

IsPrefix(s, t) == Len(s) <= Len(t) /\ s = SubSeq(t, 1, Len(s))

Entered(stage) == \E n \in DOMAIN gw_log : gw_log[n] = stage

\* C3: the stages entered so far are an initial part of BuildContext,
\* ParallelRecall, Fuse, Rerank (if enabled and configured), RankingEngine
\* (if enabled and configured), BuildResult, and a finished search has
\* entered all of them; a recall branch exists only once the embed and the
\* tokenize call have both completed; every branch carries the context built
\* from their values and the request's recall_top_k; and fusion has started
\* only if every configured branch has returned
C3_StageOrder ==
    /\ IsPrefix(gw_log, ExpectedStages(gw_req, gw_cfg))
    /\ gw_pc = "Done" => gw_log = ExpectedStages(gw_req, gw_cfg)
    /\ recall_tasks # <<>> =>
           /\ \A t \in DOMAIN ctx_tasks : ctx_tasks[t].st = "done"
           /\ Entered("ParallelRecall")
    /\ \A i \in DOMAIN recall_tasks :
           /\ recall_tasks[i].context =
                  [built |-> TRUE, original_query |-> gw_req.query,
                   query_vector |-> ctx_tasks["embed"].value,
                   tokens |-> ctx_tasks["tokenize"].value]
           /\ recall_tasks[i].top_k = gw_req.recall_top_k
    /\ Entered("Fuse") =>
           /\ DOMAIN recall_tasks = DOMAIN Strategies
           /\ \A i \in DOMAIN recall_tasks : recall_tasks[i].st = "returned"

\* all six stages were entered, the keyword branch having returned before
\* the vector branch
C3_Witness ==
    /\ gw_log = <<"BuildContext", "ParallelRecall", "Fuse", "Rerank",
                  "RankingEngine", "BuildResult">>
    /\ fin_order = <<2, 1>>
    /\ recall_tasks[1].how = "ok"
    /\ recall_tasks[2].how = "ok"
    /\ gw_merged_candidates # <<>>

-----------------------------------------------------------------------------
(* C4 *)

\* the return values of the branches, by the strategy's position
ReturnedLists == [i \in DOMAIN Strategies |-> recall_tasks[i].result]

\* what the stages after the recall make of the returned lists, given what
\* the rerank model answered and what the engine's lookups gave
RefFinalResults(lists, rerank_outcome) ==
    LET merged == rrf_merge(lists, FusionTopN(gw_req), DefaultK)
        ranked == IF RerankRuns(gw_req, gw_cfg)
                  THEN Take(SortDesc(rerank_predict(merged, rerank_outcome),
                                     "final_score"), gw_req.top_n)
                  ELSE Take(merged, gw_req.top_n)
    IN  IF ~RankingRuns(gw_req, gw_cfg) \/ ranked = <<>> THEN ranked
        ELSE apply_position_rules(
                 apply_mmr(filter_blacklist(ranked, eng_blacklist),
                           gw_req.top_n, eng_lambda.param),
                 eng_rule)

\* C4: whatever the order in which the concurrent calls complete, the
\* context holds embed's value as vector and tokenize's as tokens, the
\* candidate lists are the branches' return values by strategy position, and
\* the result items, their order, their scores and recall_stats are those
\* computed from the lists in that order
C4_DeterministicUnderInterleaving ==
    /\ gw_context.built =>
           /\ gw_context.query_vector = ctx_tasks["embed"].value
           /\ gw_context.tokens = ctx_tasks["tokenize"].value
    /\ Entered("Fuse") =>
           /\ gw_candidate_lists = ReturnedLists
           /\ gw_merged_candidates = rrf_merge(ReturnedLists, FusionTopN(gw_req), DefaultK)
    /\ gw_pc = "Done" =>
           /\ \E outcome \in RerankOutcomes :
                gw_result.results =
                    [i \in DOMAIN RefFinalResults(ReturnedLists, outcome) |->
                        [doc_id |-> RefFinalResults(ReturnedLists, outcome)[i].doc_id,
                         score |-> RefFinalResults(ReturnedLists, outcome)[i].score]]
           /\ \A i \in DOMAIN Strategies :
                gw_result.recall_stats[Strategies[i]] = Len(recall_tasks[i].result)
           /\ gw_result.recall_stats["merged"] = Len(gw_result.results)

\* the keyword branch returned first; the vector branch returned [a, b], the
\* keyword branch [b]; b, found by both, is ahead of a in the result
C4_Witness ==
    /\ gw_pc = "Done"
    /\ fin_order = <<2, 1>>
    /\ DocIds(recall_tasks[1].result) = <<"a", "b">>
    /\ DocIds(recall_tasks[2].result) = <<"b">>
    /\ gw_result.total = 2
    /\ gw_result.results[1].doc_id = "b"
    /\ gw_result.results[2].doc_id = "a"
    /\ gw_result.recall_stats["vector"] = 2
    /\ gw_result.recall_stats["keyword"] = 1

-----------------------------------------------------------------------------
(* C5 *)

\* C5: once the embed or the tokenize call has failed, the search is failing
\* or has failed: the gather raises and does not return, no SearchResult is
\* ever returned, and no recall branch, fusion, rerank or ranking stage
\* exists for the request
C5_ContextFailureIsFatal ==
    (\E t \in DOMAIN ctx_tasks : ctx_tasks[t].st = "failed") =>
        /\ gw_pc \in {"BuildContext", "Failed"}
        /\ gw_pc = "BuildContext" => (ENABLED GwContextFail /\ ~ENABLED GwBuildContext)
        /\ ~gw_result.returned
        /\ gw_log = <<"BuildContext">>
        /\ recall_tasks = <<>>
        /\ gw_candidate_lists = <<>>
        /\ gw_merged_candidates = <<>>
        /\ gw_final_results = <<>>
        /\ eng_pc = "idle"

\* the embed call failed, the tokenize call succeeded: the search has failed
C5_Witness ==
    /\ gw_pc = "Failed"
    /\ ctx_tasks["embed"].st = "failed"
    /\ ctx_tasks["tokenize"].st = "done"
    /\ ctx_tasks["tokenize"].value # <<>>
    /\ ~IsBlank(gw_req.query)

-----------------------------------------------------------------------------
(* C6 *)

\* the three stages as the reference states them
RefBlacklistFilter(items, ids) ==
    SelectSeq(items, LAMBDA x : x.doc_id \notin ids)

RefReinsert(items, stored) ==
    IF stored = <<>> \/ \A i \in DOMAIN items : items[i].doc_id # stored[1]
    THEN items
    ELSE LET target == items[CHOOSE i \in DOMAIN items : items[i].doc_id = stored[1]]
             rest == SelectSeq(items, LAMBDA x : x.doc_id # stored[1])
             at == Min(stored[2], Len(rest))
         IN  SubSeq(rest, 1, at) \o <<target>> \o SubSeq(rest, at + 1, Len(rest))

\* lambda as stored: the row's value, 0.5 when there is no row
RefStoredLambda == IF db_lambda = <<>> THEN 1 ELSE db_lambda[1]

AllLookupsSucceeded ==
    /\ eng_blacklist.status = "ok"
    /\ eng_lambda.read \in {"row", "norow"}
    /\ eng_rule.status \in {"rule", "none"}

\* C6: for a non-empty item list, when the blacklist, the lambda and the
\* position-rule lookup all succeed, what apply returns is the position
\* insertion of the query's rule applied to the MMR selection (stored lambda,
\* top_n) of the blacklist-filtered input
C6_ApplyIsStagesInOrder ==
    (eng_pc = "returned" /\ eng_arg # <<>> /\ AllLookupsSucceeded) =>
        eng_items =
            RefReinsert(
                mmr_rerank(RefBlacklistFilter(eng_arg, redis_blacklist),
                           RefStoredLambda, eng_top_n),
                redis_rules[eng_query])

\* the scenario [b, a, d], blacklist {a}, rule (d, 0): the output is [d, b]
C6_Witness ==
    /\ eng_pc = "returned"
    /\ AllLookupsSucceeded
    /\ DocIds(eng_arg) = <<"b", "a", "d">>
    /\ redis_blacklist = {"a"}
    /\ redis_rules[eng_query] = <<"d", 0>>
    /\ DocIds(eng_items) = <<"d", "b">>

-----------------------------------------------------------------------------
(* C7 *)

\* C7: when the blacklist lookup succeeded, no returned item has a doc id of
\* the blacklist, whatever the input, lambda, top_n and position rule are,
\* and apply never returns more than top_n items
C7_NoBlacklistedItemAndAtMostTopN ==
    eng_pc = "returned" =>
        /\ Len(eng_items) <= eng_top_n
        /\ eng_blacklist.status = "ok" =>
               \A i \in DOMAIN eng_items : eng_items[i].doc_id \notin redis_blacklist

\* the position rule names the blacklisted doc a, which was in the input
C7_Witness ==
    /\ eng_pc = "returned"
    /\ eng_blacklist.status = "ok"
    /\ redis_blacklist = {"a"}
    /\ eng_rule.status = "rule"
    /\ eng_rule.doc_id = "a"
    /\ \E i \in DOMAIN eng_arg : eng_arg[i].doc_id = "a"
    /\ eng_items # <<>>

-----------------------------------------------------------------------------
(* C8 *)

\* the reference's own similarity, relevance and marginal score
RefSimilarity(x, y) ==
    LET raw == (IF x.category = y.category THEN 6 ELSE 0)
               + (IF x.msource = y.msource THEN 4 ELSE 0)
    IN  IF raw > 10 THEN 10 ELSE raw

RefMaxSimilarity(x, chosen) ==
    IF chosen = {} THEN 0
    ELSE CHOOSE m \in {RefSimilarity(x, y) : y \in chosen} :
             \A y \in chosen : RefSimilarity(x, y) <= m

RefMarginal(x, chosen, lambda_param) ==
    lambda_param * x.final_score
    - (2 - lambda_param) * RefMaxSimilarity(x, chosen) * (ScoreUnit \div 10)

\* index in the input of the j-th returned item
InputIndex(items, x) == CHOOSE i \in DOMAIN items : items[i] = x

\* C8: for lambda in [0, 1], mmr_rerank is the greedy reference: the j-th
\* returned item is, among the input items not returned before it, the first
\* in input order of those with the largest marginal score against the items
\* returned before it; min(top_n, len(items)) items are returned, each an
\* input item, none twice.
C8_MmrIsGreedyReference ==
    (mmr_pc = "returned" /\ mmr_lambda \in 0 .. 2) =>
        /\ Len(mmr_out) = Min(mmr_top_n, Len(mmr_items))
        /\ \A j \in DOMAIN mmr_out : \E i \in DOMAIN mmr_items : mmr_items[i] = mmr_out[j]
        /\ \A j1, j2 \in DOMAIN mmr_out : j1 # j2 => mmr_out[j1] # mmr_out[j2]
        /\ \A j \in DOMAIN mmr_out :
             LET chosen == {mmr_out[h] : h \in 1 .. (j - 1)}
                 left == {i \in DOMAIN mmr_items : mmr_items[i] \notin chosen}
                 me == InputIndex(mmr_items, mmr_out[j])
                 mine == RefMarginal(mmr_out[j], chosen, mmr_lambda)
             IN  /\ me \in left
                 /\ \A i \in left :
                      /\ RefMarginal(mmr_items[i], chosen, mmr_lambda) <= mine
                      /\ i < me => RefMarginal(mmr_items[i], chosen, mmr_lambda) < mine

\* a tie on the second pick: with lambda = 0.5, after b (0.9) is taken, a
\* (0.5, unlike b) and c (0.9, same source as b) both score 0.25, and a, the
\* earlier one in the list, is returned second
C8_Witness ==
    /\ mmr_pc = "returned"
    /\ mmr_lambda = 1
    /\ mmr_top_n = 2
    /\ Len(mmr_items) = 3
    /\ DocIds(mmr_out) = <<"b", "a">>
    /\ mmr_items[1].final_score < mmr_items[3].final_score
    /\ RefMarginal(mmr_items[1], {mmr_items[2]}, 1)
         = RefMarginal(mmr_items[3], {mmr_items[2]}, 1)

-----------------------------------------------------------------------------
(* C9 *)

\* the score an item currently carries
CurrentScore(item) ==
    IF item.kind = "CandidateItem" THEN item.score ELSE item.final_score

\* C9: when the ranking engine's MMR stage runs inside a search, the
\* relevance mmr_rerank reads of every item is the item's current score (the
\* fused RRF score of a CandidateItem, the final score of a ScoredItem), so
\* two fused candidates with different RRF scores have different relevance
C9_RelevanceIsCurrentScore ==
    (gw_pc = "RankingEngine" /\ eng_pc = "mmr") =>
        /\ \A i \in DOMAIN eng_items :
             Relevance(eng_items[i]) = CurrentScore(eng_items[i])
        /\ \A i, j \in DOMAIN eng_items :
             (/\ eng_items[i].kind = "CandidateItem"
              /\ eng_items[j].kind = "CandidateItem"
              /\ eng_items[i].score # eng_items[j].score)
             => Relevance(eng_items[i]) # Relevance(eng_items[j])

-----------------------------------------------------------------------------
(* C10 *)

\* number of places of seq holding x
CountOf(seq, x) == Cardinality({i \in DOMAIN seq : seq[i] = x})

\* C10: a step of the position stage that found a rule (doc_id, position),
\* position >= 0, whose doc_id is in the list of length n: the item is at
\* index min(position, n - 1) of the new list, the other items are in the
\* order they were in, and the new list is a permutation of the old one
C10_PositionInsertion ==
    [][(/\ eng_pc = "position"
        /\ eng_pc' = "returned"
        /\ eng_rule'.status = "rule"
        /\ eng_rule'.position >= 0
        /\ \E i \in DOMAIN eng_items : eng_items[i].doc_id = eng_rule'.doc_id)
       =>
       LET n == Len(eng_items)
           doc_id == eng_rule'.doc_id
           target == eng_items[CHOOSE i \in DOMAIN eng_items : eng_items[i].doc_id = doc_id]
           index == Min(eng_rule'.position, n - 1)
       IN  /\ Len(eng_items') = n
           /\ eng_items'[index + 1] = target
           /\ SelectSeq(eng_items', LAMBDA x : x.doc_id # doc_id)
                = SelectSeq(eng_items, LAMBDA x : x.doc_id # doc_id)
           /\ \A i \in DOMAIN eng_items :
                CountOf(eng_items', eng_items[i]) = CountOf(eng_items, eng_items[i])
      ]_vars

\* rule (b, FarPosition): with lambda = 1 the MMR stage hands on [b, a, d]
\* (b has the highest score), and b, sent beyond the end, comes out last
C10_Witness ==
    /\ eng_pc = "returned"
    /\ eng_blacklist.status = "failed"
    /\ eng_lambda.param = 2
    /\ eng_top_n = 3
    /\ Len(eng_arg) = 3
    /\ eng_arg[1].final_score > eng_arg[2].final_score
    /\ eng_arg[2].final_score = eng_arg[3].final_score
    /\ eng_rule.status = "rule"
    /\ eng_rule.doc_id = "b"
    /\ eng_rule.position = FarPosition
    /\ DocIds(eng_items) = <<"a", "d", "b">>

-----------------------------------------------------------------------------
(* C11 *)

\* reranking ran on a non-empty fused list and search has left the rerank step
RerankedNonEmpty ==
    /\ RerankRuns(gw_req, gw_cfg)
    /\ gw_merged_candidates # <<>>
    /\ gw_pc \in {"Ranking", "RankingEngine", "BuildResult", "Done", "Failed"}

\* C11: when reranking is enabled and configured and the fused list is not
\* empty, the search does not fail, and when the ranking engine is off the
\* finished search returns the reranked items, in non-increasing final-score
\* order, cut to top_n, each with its final score as score
C11_RerankedSearchCompletes ==
    RerankedNonEmpty =>
        /\ gw_pc # "Failed"
        /\ (gw_pc = "Done" /\ ~RankingRuns(gw_req, gw_cfg)) =>
               /\ gw_result.results =
                      [i \in DOMAIN gw_final_results |->
                          [doc_id |-> gw_final_results[i].doc_id,
                           score |-> gw_final_results[i].final_score]]
               /\ gw_result.results # <<>>
               /\ \A i \in 1 .. (Len(gw_result.results) - 1) :
                      gw_result.results[i].score >= gw_result.results[i + 1].score

-----------------------------------------------------------------------------
(* C12 *)

-----------------------------------------------------------------------------
(* C13 *)

\* C13: every apply call runs MMR with the lambda the store holds at the time
\* of the call: when the MMR stage of a call has just run without a failed
\* read (the store changes between calls only), the lambda it used is the
\* stored one (0.5 when there is no row), in the first call and in every
\* later call on the same engine instance.
C13_LambdaIsPerCallSnapshot ==
    (eng_pc = "position" /\ eng_lambda.read \notin {"unasked", "error"}) =>
        eng_lambda.param = (IF db_lambda = <<>> THEN DefaultLambda ELSE db_lambda[1])

-----------------------------------------------------------------------------
(* C14 *)

\* C14: when the lambda lookup has failed, the list leaving the MMR stage is
\* the list that entered it, the blacklist-filtered list, and the returned
\* list is position insertion applied to that list.
C14_FailedLambdaLookupSkipsMmr ==
    (eng_lambda.read = "error") =>
        /\ (eng_pc = "position") =>
               eng_items = filter_blacklist(eng_arg, eng_blacklist)
        /\ (eng_pc = "returned") =>
               eng_items = apply_position_rules(
                               filter_blacklist(eng_arg, eng_blacklist), eng_rule)

-----------------------------------------------------------------------------
(* C15 *)

\* C15: a blacklist stage whose lookup fails hands its input list on unchanged
\* and the MMR stage is next; a position stage whose lookup fails hands its
\* input list on unchanged and apply returns it; no stage ends the call early.
C15_FailedLookupLeavesListUnchanged ==
    [][/\ (eng_pc = "call" /\ eng_blacklist'.status = "failed") =>
             /\ eng_items' = eng_items
             /\ eng_pc' = "mmr"
       /\ (eng_pc = "mmr") => eng_pc' = "position"
       /\ (eng_pc = "position" /\ eng_rule'.status = "failed") =>
             /\ eng_items' = eng_items
             /\ eng_pc' = "returned"]_vars

\* apply has returned after both lookups failed, although the blacklist names
\* an item of the list and a position rule is stored for the query
C15_Witness ==
    /\ eng_pc = "returned"
    /\ eng_blacklist.status = "failed"
    /\ eng_rule.status = "failed"
    /\ \E i \in DOMAIN eng_items : eng_items[i].doc_id \in redis_blacklist
    /\ redis_rules[Lower(eng_query)] # <<>>
    /\ eng_lambda.read = "row"

-----------------------------------------------------------------------------
(* C16 *)

\* C16: a returned search result has at most top_n items, no doc id twice,
\* and total is the number of items; and once fusion has run, the fused list
\* is rrf_merge of the recall lists asked for 2 * top_n items if
\* enable_rerank is true (rerank service or not) and for top_n items if not.
C16_ResultSizeAndFusionWidth ==
    /\ (gw_pc = "Done") =>
           /\ gw_result.returned
           /\ Len(gw_result.results) <= gw_req.top_n
           /\ \A i, j \in DOMAIN gw_result.results :
                  gw_result.results[i].doc_id = gw_result.results[j].doc_id => i = j
           /\ gw_result.total = Len(gw_result.results)
    /\ Entered("Fuse") =>
           gw_merged_candidates =
               rrf_merge(gw_candidate_lists,
                         IF gw_req.enable_rerank THEN 2 * gw_req.top_n
                         ELSE gw_req.top_n,
                         DefaultK)

\* a search with enable_rerank on a gateway without rerank service has
\* returned: fusion gave 2 * top_n items and the result holds top_n of them
C16_Witness ==
    /\ gw_pc = "Done"
    /\ gw_req.enable_rerank
    /\ ~gw_cfg.rerank_service
    /\ Len(gw_merged_candidates) = 2 * gw_req.top_n
    /\ gw_result.total = gw_req.top_n

-----------------------------------------------------------------------------
(* C17 *)

\* other raw scores for the same candidates: rising with the rank, the same
\* for all, and large and different from list to list
Rescorings == {"rising", "flat", "large"}

RescoredScore(how, list_idx, rank) ==
    CASE how = "rising" -> rank + 1
      [] how = "flat"   -> 1
      [] OTHER          -> 1000 * list_idx + rank * rank

\* the same doc ids at the same positions, with other raw scores
Rescore(candidate_lists, how) ==
    [li \in DOMAIN candidate_lists |->
        [r \in DOMAIN candidate_lists[li] |->
            [candidate_lists[li][r] EXCEPT !.score = RescoredScore(how, li, r - 1)]]]

IdsAndScores(merged) ==
    [i \in DOMAIN merged |-> <<merged[i].doc_id, merged[i].score>>]

\* C17: a second rrf_merge run with the same k and top_n on lists that hold
\* the same doc ids at the same positions, whatever their raw scores, returns
\* the doc-id order and the fused scores of the first run.
C17_RrfDependsOnRankOnly ==
    (rrf_pc = "returned") =>
        \A how \in Rescorings :
            IdsAndScores(rrf_merge(Rescore(rrf_lists, how), rrf_top_n, rrf_k))
                = IdsAndScores(rrf_out)

\* two lists sharing a document were merged into at least two results, and
\* every rescoring changes the raw scores
C17_Witness ==
    /\ rrf_pc = "returned"
    /\ Len(rrf_lists) = 2
    /\ Len(rrf_out) >= 2
    /\ \E i \in DOMAIN rrf_lists[1], j \in DOMAIN rrf_lists[2] :
           rrf_lists[1][i].doc_id = rrf_lists[2][j].doc_id
    /\ \A how \in Rescorings : Rescore(rrf_lists, how) # rrf_lists

-----------------------------------------------------------------------------
(* C18 *)

\* the call merges at least one list, none of them empty, with top_n >= 1
NonEmptyLists ==
    /\ rrf_lists # <<>>
    /\ \A li \in DOMAIN rrf_lists : rrf_lists[li] # <<>>
    /\ rrf_top_n >= 1

\* the doc ids at rank 0 of every input list
TopOfEveryList ==
    {d \in Docs : \A li \in DOMAIN rrf_lists : rrf_lists[li][1].doc_id = d}

\* every document with its fused score: the merge without the cut
AllFused == rrf_merge(rrf_lists, SumLens([li \in DOMAIN rrf_lists |-> Len(rrf_lists[li])],
                                         Len(rrf_lists)), rrf_k)

\* no input list holds the same doc id more than once
DuplicateFreeLists ==
    \A li \in DOMAIN rrf_lists :
        \A i, j \in DOMAIN rrf_lists[li] :
            rrf_lists[li][i].doc_id = rrf_lists[li][j].doc_id => i = j

TopRankDominates ==
    \A d \in TopOfEveryList :
        /\ rrf_out # <<>>
        /\ rrf_out[1].doc_id = d
        /\ \A i \in DOMAIN AllFused : rrf_out[1].score >= AllFused[i].score

\* C18 as stated: for non-empty lists and top_n >= 1, a doc id at rank 0 of
\* every input list is first in the output and no doc id has a greater fused
\* score.
C18_TopRankDominance ==
    (rrf_pc = "returned" /\ NonEmptyLists) => TopRankDominates

\* C18 amended: the same, provided no input list holds the same doc id more
\* than once.
C18_TopRankDominanceDuplicateFree ==
    (rrf_pc = "returned" /\ NonEmptyLists /\ DuplicateFreeLists) => TopRankDominates

\* two duplicate-free lists with the same document on top and other
\* documents below it were merged
C18_Witness ==
    /\ rrf_pc = "returned"
    /\ NonEmptyLists
    /\ DuplicateFreeLists
    /\ Len(rrf_lists) = 2
    /\ TopOfEveryList # {}
    /\ Len(rrf_lists[1]) >= 2
    /\ Len(rrf_lists[2]) >= 2
    /\ Len(rrf_out) >= 2

-----------------------------------------------------------------------------
(* C19 *)

\* C19: with lambda = 1 (two halves) mmr_rerank returns the items in stable
\* descending order of relevance, cut to top_n, whatever their categories and
\* sources are.
C19_LambdaOneIsSortByRelevance ==
    (mmr_pc = "returned" /\ mmr_lambda = 2) =>
        mmr_out = Take(SortDesc(mmr_items, "final_score"), mmr_top_n)

\* with lambda = 1 a list was reordered: it was not in descending order of
\* relevance, held two items of equal relevance and of the same category and
\* source, and was cut
C19_Witness ==
    /\ mmr_pc = "returned"
    /\ mmr_lambda = 2
    /\ mmr_out # <<>>
    /\ Len(mmr_out) < Len(mmr_items)
    /\ mmr_out # Take(mmr_items, mmr_top_n)
    /\ \E i, j \in DOMAIN mmr_out :
           /\ i < j
           /\ Relevance(mmr_out[i]) = Relevance(mmr_out[j])
           /\ calculate_similarity(mmr_out[i], mmr_out[j]) = 10

-----------------------------------------------------------------------------
(* C20 *)

\* a call with a non-empty list, top_n >= 1 and lambda in [0, 1] has returned
MmrReturnedSome ==
    /\ mmr_pc = "returned"
    /\ mmr_items # <<>>
    /\ mmr_top_n >= 1
    /\ mmr_lambda \in {0, 1, 2}

FirstPickIsMostRelevant ==
    /\ mmr_out # <<>>
    /\ \A i \in DOMAIN mmr_items :
           Relevance(mmr_out[1]) >= Relevance(mmr_items[i])

\* the input list is in non-increasing order of relevance
SortedByRelevance ==
    \A i \in 1 .. (Len(mmr_items) - 1) :
        Relevance(mmr_items[i]) >= Relevance(mmr_items[i + 1])

\* C20 as stated: for every lambda in [0, 1], lambda = 0 included, and every
\* non-empty list in any order with top_n >= 1, the first item of the output
\* has the greatest relevance of all candidates.
C20_FirstPickIsMostRelevant ==
    MmrReturnedSome => FirstPickIsMostRelevant

\* C20 amended: the same for every lambda in (0, 1] and lists in any order,
\* and for lambda = 0 when the list is in non-increasing order of relevance.
C20_FirstPickIsMostRelevantUnlessLambdaZeroUnsorted ==
    (MmrReturnedSome /\ (mmr_lambda > 0 \/ SortedByRelevance)) =>
        FirstPickIsMostRelevant

\* lambda = 0 on a sorted list whose items differ in relevance
C20_Witness ==
    /\ MmrReturnedSome
    /\ mmr_lambda = 0
    /\ SortedByRelevance
    /\ Len(mmr_items) >= 2
    /\ Relevance(mmr_items[1]) > Relevance(mmr_items[Len(mmr_items)])

-----------------------------------------------------------------------------
(* C21 *)

\* C21: when the blacklist lookup succeeded, the list leaving the blacklist
\* stage holds exactly the items of the input whose doc id is not in the
\* blacklist, in their input order, and filtering that list again with the
\* same blacklist returns it unchanged.
C21_BlacklistFilterExactAndIdempotent ==
    (eng_pc = "mmr" /\ eng_blacklist.status = "ok") =>
        /\ \A i \in DOMAIN eng_items : eng_items[i].doc_id \notin redis_blacklist
        /\ \A i \in DOMAIN eng_arg :
               eng_arg[i].doc_id \notin redis_blacklist =>
                   \E j \in DOMAIN eng_items : eng_items[j] = eng_arg[i]
        /\ \E f \in [DOMAIN eng_items -> DOMAIN eng_arg] :
               /\ \A j \in DOMAIN eng_items : eng_arg[f[j]] = eng_items[j]
               /\ \A j, l \in DOMAIN eng_items : j < l => f[j] < f[l]
        /\ filter_blacklist(eng_items, eng_blacklist) = eng_items

\* the blacklisted item a stood between two items that were kept
C21_Witness ==
    /\ eng_pc = "mmr"
    /\ eng_blacklist.status = "ok"
    /\ redis_blacklist = {"a"}
    /\ Len(eng_arg) = 3
    /\ eng_arg[2].doc_id = "a"
    /\ Len(eng_items) = 2

-----------------------------------------------------------------------------
(* C22 *)

\* C22: a step of the position stage that found no rule for the query, or a
\* rule whose doc id is not in the current list, leaves the list as it is.
C22_PositionNoOp ==
    [][(/\ eng_pc = "position"
        /\ eng_pc' = "returned"
        /\ \/ eng_rule'.status = "none"
           \/ /\ eng_rule'.status = "rule"
              /\ \A i \in DOMAIN eng_items : eng_items[i].doc_id # eng_rule'.doc_id)
       => eng_items' = eng_items]_vars

\* the rule names a, which was in the input and was blacklisted; two items
\* are returned, and the rule's position 0 would have changed their order
C22_Witness ==
    /\ eng_pc = "returned"
    /\ eng_blacklist.status = "ok"
    /\ redis_blacklist = {"a"}
    /\ \E i \in DOMAIN eng_arg : eng_arg[i].doc_id = "a"
    /\ eng_rule.status = "rule"
    /\ eng_rule.doc_id = "a"
    /\ eng_rule.position = 0
    /\ Len(eng_items) = 2

-----------------------------------------------------------------------------
(* C23 *)

\* some candidate handed to rrf_merge has no doc id
SomeCandidateWithoutId ==
    \E li \in DOMAIN rrf_lists :
        \E r \in DOMAIN rrf_lists[li] : rrf_lists[li][r].doc_id = None

\* C23: rrf_merge does not return when a candidate without a doc id is among
\* its input: no fused list holds, or was scored with, such a candidate.
C23_CandidateWithoutIdIsFatal ==
    SomeCandidateWithoutId => rrf_pc # "returned"

-----------------------------------------------------------------------------
(* C24 *)

\* C24: a search whose query is empty or whitespace only never gets beyond
\* building the context: no recall task exists, no stage after BuildContext
\* is entered, no SearchResult is built, and once the embed and the tokenize
\* call have both finished the search can only fail.
C24_BlankQueryFails ==
    (gw_pc # "idle" /\ gw_req.query \in {"", " "}) =>
        /\ gw_pc \in {"start", "BuildContext", "Failed"}
        /\ recall_tasks = <<>>
        /\ ~gw_context.built
        /\ ~gw_result.returned
        /\ \A n \in DOMAIN gw_log : gw_log[n] = "BuildContext"
        /\ (gw_pc = "BuildContext"
               /\ \A t \in DOMAIN ctx_tasks : ctx_tasks[t].st # "running")
              => ENABLED (GwContextFail \/ GwBuildContext)

\* the search of the whitespace query has failed although embed and analyze
\* both returned a value
C24_Witness ==
    /\ gw_pc = "Failed"
    /\ gw_req.query = " "
    /\ \A t \in DOMAIN ctx_tasks : ctx_tasks[t].st = "done"
    /\ ctx_tasks["embed"].value # <<>>

-----------------------------------------------------------------------------
(* C25 *)

HmKeywords == [i \in DOMAIN hm_out |-> hm_out[i].keyword]

\* C25: for every raw list, blocked set, pinned map and limit, the output of
\* merge_and_rank holds no blocked keyword (pinned or not), at most limit
\* items, and no keyword twice.
C25_BlockedNeverShownAndBounded ==
    hm_pc = "returned" =>
        /\ \A i \in DOMAIN hm_out : hm_out[i].keyword \notin hm_blocked
        /\ Len(hm_out) <= Max(hm_limit, 0)
        /\ \A i, j \in DOMAIN hm_out :
               hm_out[i].keyword = hm_out[j].keyword => i = j

\* a blocked word is pinned inside the limit and is also in the raw list, and
\* the merge still returned something
C25_Witness ==
    /\ hm_pc = "returned"
    /\ hm_out # <<>>
    /\ \E r \in DOMAIN hm_pinned :
           /\ 0 < r
           /\ r <= hm_limit
           /\ hm_pinned[r] \in hm_blocked
           /\ \E i \in DOMAIN hm_raw : hm_raw[i][1] = hm_pinned[r]
    /\ Len(hm_out) = hm_limit

-----------------------------------------------------------------------------
(* C26 *)

\* the ranks inside the limit at which an unblocked word is pinned
RanksOf(word) ==
    {r \in DOMAIN hm_pinned : 0 < r /\ r <= hm_limit /\ hm_pinned[r] = word}

\* the unblocked words pinned at some rank inside the limit
EffectivePinWords ==
    {w \in {hm_pinned[r] : r \in DOMAIN hm_pinned} :
        w # "" /\ w \notin hm_blocked /\ RanksOf(w) # {}}

\* the lowest rank at which the word is pinned
LowestRank(word) == CHOOSE r \in RanksOf(word) : \A q \in RanksOf(word) : r <= q

\* the places of the word in the output
PlacesOf(word) == {i \in DOMAIN hm_out : hm_out[i].keyword = word}

\* the keywords the merge places before a word pinned at rank r: the
\* unblocked, unpinned keywords of the raw list and the pinned words of
\* lower rank
PlacedBefore(r) ==
    Cardinality({hm_raw[i][1] : i \in DOMAIN hm_raw}
                    \ (hm_blocked \cup EffectivePinWords \cup {""}))
        + Cardinality({w \in EffectivePinWords : LowestRank(w) < r})

\* the pinned map without the pins of rank greater than limit
PinsWithinLimit ==
    [r \in {q \in DOMAIN hm_pinned : q <= hm_limit} |-> hm_pinned[r]]

\* what C26 says of every pin but its place
PinnedOnceFlaggedAndDeafToLargeRanks ==
    /\ \A w \in EffectivePinWords :
           /\ Cardinality(PlacesOf(w)) = 1
           /\ \A i \in PlacesOf(w) : hm_out[i].is_pinned
    /\ hm_out = merge_and_rank(hm_raw, hm_blocked, PinsWithinLimit, hm_limit)

\* C26 as stated: every unblocked keyword pinned at a rank r with
\* 1 <= r <= limit is in the output exactly once, flagged is_pinned, at index
\* r - 1 (place r) whenever the output has at least r items, r being the
\* lowest such rank of the keyword; pins of rank greater than limit change
\* nothing.
C26_PinnedAtRankWheneverOutputLongEnough ==
    hm_pc = "returned" =>
        /\ PinnedOnceFlaggedAndDeafToLargeRanks
        /\ \A w \in EffectivePinWords :
               Len(hm_out) >= LowestRank(w) => PlacesOf(w) = {LowestRank(w)}

\* C26 amended: the keyword is at index r - 1 whenever the keywords placed
\* before it (the unblocked, unpinned keywords of the raw list and the pinned
\* keywords of lower rank) number at least r - 1; the rest as stated.
C26_PinnedAtRankWheneverEnoughPlacedBefore ==
    hm_pc = "returned" =>
        /\ PinnedOnceFlaggedAndDeafToLargeRanks
        /\ \A w \in EffectivePinWords :
               PlacedBefore(LowestRank(w)) >= LowestRank(w) - 1
                   => PlacesOf(w) = {LowestRank(w)}

\* a raw keyword is pinned at two ranks inside the limit, the lower one not
\* the first, another pin lies beyond the limit, and the keyword moved from
\* its natural place to the place of its lowest rank
C26_Witness ==
    /\ hm_pc = "returned"
    /\ \E w \in EffectivePinWords :
           /\ Cardinality(RanksOf(w)) = 2
           /\ LowestRank(w) > 1
           /\ hm_raw # <<>>
           /\ hm_raw[1][1] = w
           /\ PlacedBefore(LowestRank(w)) >= LowestRank(w) - 1
           /\ PlacesOf(w) = {LowestRank(w)}
    /\ \E r \in DOMAIN hm_pinned : r > hm_limit

-----------------------------------------------------------------------------
(* C27 *)

\* C27: for every non-empty candidate list and every outcome of the rerank
\* model (scores, a score list of the wrong length, a failure), predict
\* returns a list that is non-increasing in final_score and holds exactly one
\* ScoredItem per input candidate, with the same doc ids.
C27_PredictKeepsEveryCandidateSorted ==
    rr_pc = "returned" /\ rr_outcome # NoOutcome =>
        /\ IsDescending(rr_out)
        /\ Len(rr_out) = Len(rr_candidates)
        /\ \A i \in DOMAIN rr_candidates :
               Cardinality({j \in DOMAIN rr_out :
                               rr_out[j].doc_id = rr_candidates[i].doc_id}) = 1

-----------------------------------------------------------------------------
(* C28 *)

\* C28: after set_position_rule(q, d, p), get_position_rule(q) returns
\* (d, p), for every query string, doc id and position p >= 0, until the rule
\* is overwritten or deleted; a rule is returned only for the query string it
\* was stored under.  (The engine reads the rule it applies by this very
\* call, so it applies the rule the call returns.)
C28_RuleRoundTrip ==
    rule_got # NotAsked =>
        rule_got.rule =
            (IF rule_set[rule_got.query] = <<>> THEN NoRule
             ELSE [status |-> "rule",
                   doc_id |-> rule_set[rule_got.query][1],
                   position |-> rule_set[rule_got.query][2]])

-----------------------------------------------------------------------------
(* C29 *)

Acquirers == {i \in DOMAIN dec : dec[i].acquired}

\* C29: while the lock key has not expired, at most one of the decay_once
\* invocations acquires the lock, applies the decay and returns True; every
\* other one returns False and changes no score; the lock outlives the
\* invocation that took it, so that until its TTL runs out every further
\* decay_once returns False.
C29_DecayLockAdmitsOne ==
    /\ Cardinality(Acquirers) <= lock_expiries + 1
    /\ \A i \in DOMAIN dec :
           /\ dec[i].ret = "True" => dec[i].acquired
           /\ dec[i].wrote => dec[i].acquired
           /\ dec[i].pc = "done" /\ ~dec[i].acquired =>
                  dec[i].ret = "False" /\ ~dec[i].wrote
           /\ dec[i].pc = "done" /\ dec[i].acquired => dec[i].ret = "True"
    /\ Acquirers # {} /\ lock_expiries = 0 =>
           /\ decay_lock
           /\ \A i \in DOMAIN dec \ Acquirers : dec[i].pc \in {"start", "done"}

\* one invocation applied the decay and returned True, another one, started
\* before it finished or after, returned False; the lock has not expired and
\* is still held
C29_Witness ==
    /\ lock_expiries = 0
    /\ decay_lock
    /\ \E i, j \in DOMAIN dec :
           /\ dec[i].pc = "done" /\ dec[i].ret = "True" /\ dec[i].wrote
           /\ dec[j].pc = "done" /\ dec[j].ret = "False"
    /\ hot_list # hot_list0

-----------------------------------------------------------------------------
(* C30 *)

\* one decay_once ran to its return, every other one was refused, and the
\* record_search_action has returned
OneDecayAndOneRecordDone ==
    /\ rec.pc = "done"
    /\ Cardinality({i \in DOMAIN dec : dec[i].acquired}) = 1
    /\ \A i \in DOMAIN dec : dec[i].pc = "done"

\* the factor the decay means for the keyword: its own, or the base factor
EffectiveFactor(keyword) ==
    IF boost_decay_factors[keyword] = <<>> THEN BaseDecayFactor
    ELSE boost_decay_factors[keyword][1]

\* the keyword's score before the two invocations, 0 if it was not listed
ScoreBefore(keyword) ==
    IF hot_list0[keyword] = <<>> THEN 0 ELSE hot_list0[keyword][1]

\* C30: after one decay_once with effective factor f and one
\* record_search_action adding delta to a keyword of score s, interleaved in
\* any way, the keyword is in the hot list and its score is f * (s + delta)
\* or f * s + delta.
C30_NoIncrementLost ==
    OneDecayAndOneRecordDone =>
        /\ hot_list[rec.keyword] # <<>>
        /\ hot_list[rec.keyword][1] \in
               {(EffectiveFactor(rec.keyword) * (ScoreBefore(rec.keyword) + BaseIncrement))
                    \div FactorOne,
                (EffectiveFactor(rec.keyword) * ScoreBefore(rec.keyword)) \div FactorOne
                    + BaseIncrement}

====
